---- MODULE Spec2Model ----
(***************************************************************************)
(* Model of csp-web (main.go) and its browser probe (csp-check.mjs).       *)
(*                                                                         *)
(*   Spec      : the run handler and the multi-engine orchestrator         *)
(*               (handleRuns, runCSPCheck, createRun) together with the    *)
(*               probe child process and the request context; requests     *)
(*               are handled one at a time.                                *)
(*   SpecDedup : the probe's per-page violation dedup (checkUrl).          *)
(*   SpecGroup : groupViolations of main.go.                               *)
(*   SpecKeys  : groupViolations on violations whose fields hold the       *)
(*               separator of the group key.                               *)
(*   SpecParse : the parsers of main.go (parseConfig, parseURLList,        *)
(*               normalizeURL, extractDirective).                          *)
(*   SpecBoot  : ensureDefaultProfile, statement by statement, in several   *)
(*               instances on one database, with the profile handlers.     *)
(*   SpecQueue : runQueue of the probe, its workers interleaved at their   *)
(*               awaits.                                                   *)
(*   SpecStore : the tables profiles and runs under the handlers that      *)
(*               write and read them, one request at a time, the run of    *)
(*               the engines reduced to its outcome.                       *)
(*   SpecMulti : the run page's grouping over several engines              *)
(*               (groupViolationsMulti, groupViolationsByDisposition,      *)
(*               groupViolationsMultiByDisposition).                       *)
(***************************************************************************)
EXTENDS Integers, Sequences, FiniteSets, TLC

(***************************************************************************)
(* Bounds                                                                  *)
(***************************************************************************)
\* number of raw violation events collected on one page
MaxEvents == 2
\* number of PageResults handed to groupViolations
MaxPages == 2
\* number of Violations in those PageResults, all pages together
MaxViolations == 3
\* number of run submissions handled in one behaviour
MaxReqs == 1
\* largest exit code a probe process ends with (0 clean, 1 violations, above: errors)
MaxExitCode == 1
\* largest totals.violations a probe writes into its report file
MaxTotalViolations == 1
\* number of (engine, page, violation) findings in a stored run shown on the run page
MaxEntries == 2
\* largest absolute value of a number stored in a profile's config_json
MaxConfigInt == 1
\* length, in tokens, of a URL list text and of a raw URL
MaxTextLen == 4
\* length, in characters, of a policy text
MaxPolicyLen == 5
\* rows the table runs grows to
MaxRuns == 2
\* rows the table profiles grows to
MaxProfiles == 2
\* instances that start on one database
MaxInstances == 2
\* URLs in the probe's list
MaxItems == 3
\* workers of the probe's queue (CSP_CONCURRENCY)
MaxWorkers == 3

VARIABLES
    \* ---- Spec: handler, orchestrator, child process, store
    pc,             \* "idle": no request in flight; "wait": runCSPCheck blocked in io.ReadAll/cmd.Wait
    reqId,          \* number of POST /runs requests received so far
    ctxDone,        \* r.Context() is cancelled
    cancelPass,     \* loop index of the pass in flight when the context was cancelled (0: not cancelled)
    tmpDir,         \* workspace directory: "none", "present", "removed"
    cur,            \* 1-based index into browsers of the current loop iteration
    started,        \* engines whose cmd.Start succeeded during this request, in order
    live,           \* engines whose child process is alive
    child,          \* the current cmd: [state, status, interrupted]
    jsonFile,       \* content of report-<browser>.json in tmpDir, per engine
    maxExit,        \* runCSPCheck's maxExit
    browserReports, \* runCSPCheck's browserReports map
    passes,         \* per finished pass of this request: [status, exitCode]
    ret,            \* what runCSPCheck returned: [multi, exitCode, err] (NoReturn while it runs)
    resp,           \* the handler's response ("none" while it runs)
    runs            \* rows of table runs, in insertion order

VARIABLES
    \* ---- SpecDedup: checkUrl of csp-check.mjs, for one page
    phase,          \* "off", "page" (events arrive), "dedup" (the loop of lines 254-263), "done"
    violations,     \* checkUrl's violations array: the raw events pushed so far
    pos,            \* number of events the dedup loop has gone through
    uniq,           \* checkUrl's uniq Map, in insertion order: <<[key, v], ...>>
    pageViolations  \* the violations list of the returned PageResult

VARIABLES
    \* ---- SpecGroup: groupViolations of main.go
    results,        \* the argument: a list of ReportPageResult
    ordered,        \* what the latest call returned
    previous,       \* what the call before it returned
    calls           \* number of calls made on results, counted up to 2

VARIABLES
    \* ---- SpecMulti: the groupings of the run page (handleRunDetail)
    multiBrowsers,  \* multi.Browsers of the stored run: engine name -> Results
    view            \* what was computed last from it: [fn, ...]

VARIABLES
    \* ---- SpecParse: the parsers of main.go
    arg,            \* the call to make: [fn, ...arguments]
    result          \* what the call returned ([fn |-> "none"] before it)

VARIABLES
    \* ---- SpecStore: the database and the handlers on it
    profileRows,    \* rows of table profiles, in insertion order
    runRows,        \* rows of table runs, in insertion order
    reply,          \* the response to the last request: [handler, code, ...]
    probed          \* the call of runCSPCheck the last request made, if any

VARIABLES
    \* ---- SpecBoot: the instances that start on the database
    boot            \* per instance: where it is in ensureDefaultProfile

VARIABLES
    \* ---- SpecQueue: runQueue of the probe
    items,          \* the list of URLs (targets)
    workers,        \* the number of workers (CONCURRENCY)
    idx,            \* the next index to hand out, counted from 1
    queueResults,   \* the array results of runQueue, holes included
    worker,         \* per worker: [at, i], where it is in its loop
    queue,          \* the promise runQueue returned
    fnCalls,        \* history: the indices fn was called with, in call order
    fnSettled       \* history: the indices whose fn resolved, in that order

orchVars == <<pc, reqId, ctxDone, cancelPass, tmpDir, cur, started, live, child,
              jsonFile, maxExit, browserReports, passes, ret, resp, runs>>

dedupVars == <<phase, violations, pos, uniq, pageViolations>>

groupVars == <<results, ordered, previous, calls>>

multiVars == <<multiBrowsers, view>>

parseVars == <<arg, result>>

storeVars == <<profileRows, runRows, reply, probed>>

bootVars == <<boot>>

queueVars == <<items, workers, idx, queueResults, worker, queue, fnCalls,
               fnSettled>>

vars == <<orchVars, dedupVars, groupVars, multiVars, parseVars, storeVars, bootVars, queueVars>>

\* what the actions of one specification leave alone
notOrchVars == <<dedupVars, groupVars, multiVars, parseVars, storeVars, bootVars, queueVars>>
notDedupVars == <<orchVars, groupVars, multiVars, parseVars, storeVars, bootVars, queueVars>>
notGroupVars == <<orchVars, dedupVars, multiVars, parseVars, storeVars, bootVars, queueVars>>
notMultiVars == <<orchVars, dedupVars, groupVars, parseVars, storeVars, bootVars, queueVars>>
notParseVars == <<orchVars, dedupVars, groupVars, multiVars, storeVars, bootVars, queueVars>>
notStoreVars == <<orchVars, dedupVars, groupVars, multiVars, parseVars, bootVars, queueVars>>
notBootVars == <<orchVars, dedupVars, groupVars, multiVars, parseVars, queueVars>>
notQueueVars == <<orchVars, dedupVars, groupVars, multiVars, parseVars, storeVars,
                  bootVars>>

(***************************************************************************)
(* Helpers                                                                 *)
(***************************************************************************)
Max(a, b) == IF a > b THEN a ELSE b

RECURSIVE SeqMax(_)
SeqMax(s) == IF Len(s) = 1 THEN s[1] ELSE Max(s[1], SeqMax(Tail(s)))

Range(s) == {s[i] : i \in DOMAIN s}

(***************************************************************************)
(* Orchestrator data                                                       *)
(***************************************************************************)
browsers == <<"chromium", "firefox", "webkit">>

Engines == Range(browsers)

\* a Report as far as the orchestrator looks at it: its totals
Reports == [pages : {1}, violations : 0..MaxTotalViolations]

\* what os.Stat / os.ReadFile / json.Unmarshal find at jsonFile
Absent == [exists |-> FALSE]
Garbage == [exists |-> TRUE, valid |-> FALSE]
JSONOf(rep) == [exists |-> TRUE, valid |-> TRUE, report |-> rep]
FileContents == {Garbage} \cup {JSONOf(rep) : rep \in Reports}

\* how a child process can end: exit(n), or killed by a signal
Exited(n) == <<"exited", n>>
Signaled == <<"signaled", 9>>
ExitStatuses == {Exited(n) : n \in 0..MaxExitCode} \cup {Signaled}

NoChild == [state |-> "none", status |-> Exited(0), interrupted |-> FALSE]

EmptyMap == [b \in {} |-> 0]

NoReturn == [multi |-> EmptyMap, exitCode |-> 0, err |-> "none"]

\* os.ProcessState.ExitCode: -1 when the process was terminated by a signal
ProcessStateExitCode(status) ==
    IF status[1] = "exited" THEN status[2] ELSE -1

\* os.ProcessState.Success
Success(status) == status[1] = "exited" /\ status[2] = 0

\* the error cmd.Wait returns: an *exec.ExitError unless the process succeeded;
\* ctx.Err() when the process succeeded but the context's kill reached it first
cmdWait(c) ==
    IF ~Success(c.status) THEN "ExitError"
    ELSE IF c.interrupted THEN "ctxErr"
    ELSE "nil"

exitCodeFromErr(err, status) ==
    IF err = "nil" THEN 0
    ELSE IF err = "ExitError" THEN ProcessStateExitCode(status)
    ELSE 1

exitCodeFromState(status, err) ==
    IF err # "nil" THEN exitCodeFromErr(err, status)
    ELSE ProcessStateExitCode(status)

\* mutant: the deferred removal is missing
deferRemoveAll_missing(dir) == dir

\* defer os.RemoveAll(tmpDir)
deferRemoveAll(dir) == IF dir = "present" THEN "removed" ELSE dir

\* the files of the workspace after os.RemoveAll
NoFiles == [b \in Engines |-> Absent]

(***************************************************************************)
(* Spec: POST /runs -> runCSPCheck -> createRun                            *)
(***************************************************************************)
\* cmd.Start of exec.CommandContext: refuses to start once ctx is done, and can
\* fail in the operating system (ok = FALSE)
cmdStartFails(done, ok) == done \/ ~ok

\* mutant: the insert does not look at the context
createRunFails_noCtx(done, ok) == ~ok

\* db.ExecContext(ctx, INSERT INTO runs ...): fails once ctx is done, and can
\* fail in the storage layer (ok = FALSE)
createRunFails(done, ok) == done \/ ~ok

\* mutant: the loop does not wait for the process
waitReturned_noWait(c) == TRUE

\* cmd.Wait has returned: the process has terminated
waitReturned(c) == c.state = "exited"

\* mutant: any non-zero exit is a hard failure, output file or not
passOutcome_strict(waitErr, file) ==
    IF waitErr # "nil" THEN "node failed"
    ELSE IF ~file.exists THEN "read failed"
    ELSE IF ~file.valid THEN "unmarshal failed"
    ELSE "ok"

\* lines 835-850: what becomes of a pass once the process has been waited for
passOutcome(waitErr, file) ==
    IF waitErr # "nil" /\ ~file.exists THEN "node failed"
    ELSE IF ~file.exists THEN "read failed"
    ELSE IF ~file.valid THEN "unmarshal failed"
    ELSE "ok"

\* mutant: a failed pass returns what was collected so far, without an error
errorReturn_partial(reports, code, err) ==
    [multi |-> reports, exitCode |-> code, err |-> "none"]

\* the error returns of runCSPCheck: return MultiReport{}, code, err
errorReturn(reports, code, err) ==
    [multi |-> EmptyMap, exitCode |-> code, err |-> err]

\* the final return of runCSPCheck: return multi, maxExit, nil
okReturn(reports, code) ==
    [multi |-> reports, exitCode |-> code, err |-> "none"]

\* the row createRun inserts for request rid
NewRun(rid, rv) ==
    [id |-> Len(runs) + 1, req |-> rid, exitCode |-> rv.exitCode, results |-> rv.multi]

\* runCSPCheck returns rv with the workspace left in state dir; the handler
\* answers and, when there is no error, saves the Run (lines 435-460)
Return(rid, done, rv, dir, dbOk) ==
    /\ pc' = "idle"
    /\ ret' = rv
    /\ tmpDir' = dir
    /\ jsonFile' = IF dir = "present" THEN jsonFile ELSE NoFiles
    /\ child' = NoChild
    /\ maxExit' = 0
    /\ browserReports' = EmptyMap
    /\ IF rv.err # "none"
         THEN resp' = "csp check failed" /\ runs' = runs
         ELSE IF createRunFails(done, dbOk)
                THEN resp' = "save run failed" /\ runs' = runs
                ELSE resp' = "see other" /\ runs' = Append(runs, NewRun(rid, rv))

\* one loop iteration up to cmd.Wait (lines 804-830): start engine i, the
\* engines in sofar having been started before
StartPass(rid, done, i, sofar, alive, files, newMax, newReports, startOk, dbOk) ==
    /\ cur' = i
    /\ IF cmdStartFails(done, startOk)
         THEN /\ Return(rid, done, errorReturn(newReports, 0, "start failed"),
                        deferRemoveAll("present"), dbOk)
              /\ started' = sofar
              /\ live' = alive
         ELSE /\ pc' = "wait"
              /\ child' = [state |-> "running", status |-> Exited(0), interrupted |-> FALSE]
              /\ started' = Append(sofar, browsers[i])
              /\ live' = alive \cup {browsers[i]}
              /\ maxExit' = newMax
              /\ browserReports' = newReports
              /\ tmpDir' = "present"
              /\ jsonFile' = files
              /\ ret' = NoReturn
              /\ resp' = "none"
              /\ runs' = runs

\* POST /runs with a valid URL list: runCSPCheck from its entry to the first
\* cmd.Wait, or to its return when MkdirTemp, WriteFile or the first Start fails
handleRuns ==
    /\ pc = "idle"
    /\ reqId < MaxReqs
    /\ reqId' = reqId + 1
    /\ ctxDone' = FALSE
    /\ cancelPass' = 0
    /\ passes' = <<>>
    /\ \E mkOk, wrOk, startOk, dbOk \in BOOLEAN :
         IF ~mkOk
           THEN /\ Return(reqId + 1, FALSE, errorReturn(EmptyMap, 0, "mkdir failed"),
                          "none", dbOk)
                /\ cur' = 0 /\ started' = <<>> /\ live' = {}
           ELSE IF ~wrOk
                  THEN /\ Return(reqId + 1, FALSE, errorReturn(EmptyMap, 0, "write failed"),
                                 deferRemoveAll("present"), dbOk)
                       /\ cur' = 0 /\ started' = <<>> /\ live' = {}
                  ELSE StartPass(reqId + 1, FALSE, 1, <<>>, {}, NoFiles, 0, EmptyMap,
                                 startOk, dbOk)
    /\ UNCHANGED notOrchVars

\* the probe writes its output file (csp-check.mjs, line 487); a write cut
\* short leaves a file that does not parse
probeWritesOutput ==
    /\ pc = "wait"
    /\ child.state = "running"
    /\ ~jsonFile[browsers[cur]].exists
    /\ \E content \in FileContents :
         jsonFile' = [jsonFile EXCEPT ![browsers[cur]] = content]
    /\ UNCHANGED <<pc, reqId, ctxDone, cancelPass, tmpDir, cur, started, live, child,
                   maxExit, browserReports, passes, ret, resp, runs>>
    /\ UNCHANGED notOrchVars

\* the probe process ends by itself: process.exit(n), or a crash or a kill
\* from outside
probeExits ==
    /\ pc = "wait"
    /\ child.state = "running"
    /\ \E status \in ExitStatuses :
         child' = [child EXCEPT !.state = "exited", !.status = status]
    /\ live' = live \ {browsers[cur]}
    /\ UNCHANGED <<pc, reqId, ctxDone, cancelPass, tmpDir, cur, started, jsonFile,
                   maxExit, browserReports, passes, ret, resp, runs>>
    /\ UNCHANGED notOrchVars

\* the request context is cancelled during a pass; exec.CommandContext kills
\* the child if it still runs. A child that has exited but is not yet reaped
\* may or may not be reached by the kill.
cancelRequest ==
    /\ pc = "wait"
    /\ ~ctxDone
    /\ ctxDone' = TRUE
    /\ cancelPass' = cur
    /\ IF child.state = "running"
         THEN /\ child' = [state |-> "exited", status |-> Signaled, interrupted |-> TRUE]
              /\ live' = live \ {browsers[cur]}
         ELSE /\ \E reached \in BOOLEAN : child' = [child EXCEPT !.interrupted = reached]
              /\ live' = live
    /\ UNCHANGED <<pc, reqId, tmpDir, cur, started, jsonFile,
                   maxExit, browserReports, passes, ret, resp, runs>>
    /\ UNCHANGED notOrchVars

\* cmd.Wait returns: lines 830-852 of the current iteration, then either the
\* next iteration up to its cmd.Wait, or the return of runCSPCheck and the
\* rest of the handler
afterWait ==
    /\ pc = "wait"
    /\ waitReturned(child)
    /\ LET browser == browsers[cur]
           waitErr == cmdWait(child)
           exitCode == exitCodeFromState(child.status, waitErr)
           newMax == IF exitCode > maxExit THEN exitCode ELSE maxExit
           file == jsonFile[browser]
           outcome == passOutcome(waitErr, file)
           newReports == IF outcome = "ok"
                           THEN [b \in DOMAIN browserReports \cup {browser} |->
                                   IF b = browser THEN file.report ELSE browserReports[b]]
                           ELSE browserReports
       IN  /\ passes' = Append(passes, [status |-> child.status, exitCode |-> exitCode])
           /\ \E startOk, dbOk \in BOOLEAN :
                IF outcome # "ok"
                  THEN /\ Return(reqId, ctxDone, errorReturn(newReports, exitCode, outcome),
                                 deferRemoveAll(tmpDir), dbOk)
                       /\ UNCHANGED <<cur, started, live>>
                  ELSE IF cur = Len(browsers)
                         THEN /\ Return(reqId, ctxDone, okReturn(newReports, newMax),
                                        deferRemoveAll(tmpDir), dbOk)
                              /\ UNCHANGED <<cur, started, live>>
                         ELSE StartPass(reqId, ctxDone, cur + 1, started, live, jsonFile,
                                        newMax, newReports, startOk, dbOk)
    /\ UNCHANGED <<reqId, ctxDone, cancelPass>>
    /\ UNCHANGED notOrchVars

\* no request has been received yet
InitOrch ==
    /\ pc = "idle"
    /\ reqId = 0
    /\ ctxDone = FALSE
    /\ cancelPass = 0
    /\ tmpDir = "none"
    /\ cur = 0
    /\ started = <<>>
    /\ live = {}
    /\ child = NoChild
    /\ jsonFile = NoFiles
    /\ maxExit = 0
    /\ browserReports = EmptyMap
    /\ passes = <<>>
    /\ ret = NoReturn
    /\ resp = "none"
    /\ runs = <<>>

\* the probe is not modelled in this specification
DedupOff ==
    /\ phase = "off"
    /\ violations = <<>>
    /\ pos = 0
    /\ uniq = <<>>
    /\ pageViolations = <<>>

\* groupViolations is not modelled in this specification
GroupOff ==
    /\ results = <<>>
    /\ ordered = <<>>
    /\ previous = <<>>
    /\ calls = 0

\* the run page is not modelled in this specification
MultiOff ==
    /\ multiBrowsers = <<>>
    /\ view = [fn |-> "none"]

\* the parsers are not modelled in this specification
ParseOff ==
    /\ arg = [fn |-> "none"]
    /\ result = [fn |-> "none"]

\* the store is not modelled in this specification
StoreOff ==
    /\ profileRows = <<>>
    /\ runRows = <<>>
    /\ reply = [handler |-> "none"]
    /\ probed = <<>>
    /\ boot = <<>>

\* the probe's queue is not modelled in this specification
QueueOff ==
    /\ items = <<>>
    /\ workers = 0
    /\ idx = 0
    /\ queueResults = <<>>
    /\ worker = <<>>
    /\ queue = [state |-> "none"]
    /\ fnCalls = <<>>
    /\ fnSettled = <<>>

Init ==
    InitOrch /\ DedupOff /\ GroupOff /\ MultiOff /\ ParseOff /\ StoreOff /\ QueueOff

Next ==
    \/ handleRuns
    \/ probeWritesOutput
    \/ probeExits
    \/ cancelRequest
    \/ afterWait

Spec == Init /\ [][Next]_vars

(***************************************************************************)
(* Claims about the orchestrator (checked under Spec)                      *)
(***************************************************************************)
\* the request in flight, or the last one handled, has saved no Run
NoRunOfThisRequest == \A i \in DOMAIN runs : runs[i].req # reqId

\* runCSPCheck has returned without error
ReturnedOK == pc = "idle" /\ ret.err = "none" /\ Len(passes) = Len(browsers)

\* C1: when runCSPCheck returns without error, the overall exit code is the
\* maximum of the three per-engine exit codes, and it is zero only if every
\* probe process exited with code zero (whatever way the processes ended).
C1_ExitCodeIsMaxOfEngines ==
    ReturnedOK =>
        /\ ret.exitCode = SeqMax([i \in DOMAIN passes |-> passes[i].exitCode])
        /\ ret.exitCode = 0 => \A i \in DOMAIN passes : passes[i].status = Exited(0)

\* C2: a hard failure of one pass (Start fails; or non-zero exit and no output
\* file) ends the run: no later engine is started and no Run is saved, so
\* every saved Run holds a Report for each of the three engines.
C2_HardFailureAborts ==
    /\ \A i \in DOMAIN runs : DOMAIN runs[i].results = Engines
    /\ (pc = "idle" /\ ret.err = "start failed") =>
          /\ Len(started) = cur - 1
          /\ live = {}
          /\ NoRunOfThisRequest
    /\ (pc = "idle" /\ ret.err = "node failed") =>
          /\ Len(started) = cur
          /\ live = {}
          /\ NoRunOfThisRequest

\* C2 witness: firefox fails hard after chromium ended with exit code 1 and
\* a report.
C2_Witness ==
    /\ pc = "idle"
    /\ ret.err = "node failed"
    /\ cur = 2
    /\ passes[1].exitCode = 1
    /\ runs = <<>>

\* cmd.Wait is about to return for a process that exited with a non-zero code
\* and whose output file exists
SoftFailurePass ==
    /\ pc = "wait"
    /\ child.state = "exited"
    /\ child.status[1] = "exited"
    /\ child.status[2] # 0
    /\ jsonFile[browsers[cur]].exists

\* the step out of cmd.Wait accepts the pass: the file's Report is that
\* engine's Report, the loop goes on to the next engine (or returns the
\* complete result), and the code is part of the maximum
PassAccepted ==
    IF cur < Len(browsers)
      THEN /\ cur' = cur + 1
           /\ ret'.err \in {"none", "start failed"}
           /\ pc' = "wait" =>
                 /\ browserReports'[browsers[cur]] = jsonFile[browsers[cur]].report
                 /\ maxExit' >= child.status[2]
      ELSE /\ ret'.err = "none"
           /\ ret'.multi[browsers[cur]] = jsonFile[browsers[cur]].report
           /\ ret'.exitCode >= child.status[2]

\* C3 as stated: whenever a probe exits non-zero and its output file exists,
\* the pass is a soft failure: the run goes on with the file's Report.
C3_SoftFailureWheneverFileExists ==
    [][(SoftFailurePass /\ passes' # passes) => PassAccepted]_vars

\* C3 amended: whenever a probe exits non-zero and its output file exists and
\* parses as a Report, the pass is a soft failure: the pass does not abort the
\* run, the file's Report is that engine's Report, the loop goes on to the next
\* engine, and the non-zero code is part of the overall exit code.
C3_SoftFailureWhenFileParses ==
    [][(SoftFailurePass /\ jsonFile[browsers[cur]].valid /\ passes' # passes)
          => PassAccepted]_vars

\* C3 witness: chromium exited with code 1 and left a report; firefox is
\* running and the code is remembered.
C3_Witness ==
    /\ pc = "wait"
    /\ cur = 2
    /\ passes[1].status = Exited(1)
    /\ "chromium" \in DOMAIN browserReports
    /\ maxExit = 1

\* C4: the passes run one after the other in the order chromium, firefox,
\* webkit; an engine is started only when the process of the one before has
\* terminated and its output has been read; at most one process is alive.
C4_Sequential ==
    /\ Cardinality(live) <= 1
    /\ started = SubSeq(browsers, 1, Len(started))
    /\ pc = "wait" =>
          /\ Len(started) = cur
          /\ Len(passes) = cur - 1
          /\ live \subseteq {browsers[cur]}
          /\ DOMAIN browserReports = {browsers[j] : j \in 1..(cur - 1)}
    /\ pc = "idle" => live = {}

\* C4 witness: webkit runs, chromium and firefox are over and read.
C4_Witness ==
    /\ pc = "wait"
    /\ cur = 3
    /\ live = {"webkit"}
    /\ DOMAIN browserReports = {"chromium", "firefox"}

\* C5: once the workspace exists it is gone when runCSPCheck has returned,
\* whatever the way out.
C5_WorkspaceRemoved ==
    pc = "idle" =>
        /\ tmpDir # "present"
        /\ (reqId > 0 /\ ret.err # "mkdir failed") => tmpDir = "removed"

\* C5 witness: a return because the output file does not parse, at the
\* second engine.
C5_Witness ==
    /\ pc = "idle"
    /\ ret.err = "unmarshal failed"
    /\ cur = 2
    /\ tmpDir = "removed"

\* C6: once the context is cancelled during a pass, the child is dead, no
\* further engine is started, and when the handler has returned the workspace
\* is gone and no Run of the request is saved.
C6_CancelledRunNotSaved ==
    ctxDone =>
        /\ live = {}
        /\ Len(started) = cancelPass
        /\ pc = "idle" => (tmpDir = "removed" /\ NoRunOfThisRequest)

\* C6 witness: cancelled during the last pass, the output file being there:
\* runCSPCheck returns a complete result, and still no Run is saved.
C6_Witness ==
    /\ ctxDone
    /\ cancelPass = Len(browsers)
    /\ pc = "idle"
    /\ ret.err = "none"
    /\ resp = "save run failed"

(***************************************************************************)
(* SpecDedup: the per-page dedup of the probe (csp-check.mjs, checkUrl)    *)
(*                                                                         *)
(* A string is a sequence of tokens; the token "|" is the separator that   *)
(* violationKey joins with, every other token stands for text without it.  *)
(* A nullable value is <<>> (null or undefined) or <<x>>.                  *)
(***************************************************************************)
None == <<>>
Some(x) == <<x>>

\* the raw events a page can push (securitypolicyviolation, console,
\* requestfailed), as far as the dedup looks at them
RawDirectives == {Some(<<"img-src">>), Some(<<"script-src">>)}
RawURIs == {Some(<<"u">>), Some(<<"u", "|", "u">>)}
RawLines == {None, Some(1)}
RawDispositions == {None, Some(<<"enforce">>), Some(<<"report">>)}

RawEvents ==
    [effectiveDirective : RawDirectives,
     blockedURI : RawURIs,
     sourceFile : RawURIs,
     lineNumber : RawLines,
     columnNumber : {None},
     disposition : RawDispositions]

\* x || null, for a string
orNull(x) == IF x = None \/ x = Some(<<>>) THEN None ELSE x

\* x ?? null, for a number
nullish(x) == x

normalizeViolation(v) ==
    [effectiveDirective |-> orNull(v.effectiveDirective),
     blockedURI |-> orNull(v.blockedURI),
     sourceFile |-> orNull(v.sourceFile),
     lineNumber |-> nullish(v.lineNumber),
     columnNumber |-> nullish(v.columnNumber),
     disposition |-> orNull(v.disposition)]

Digits == <<"0", "1", "2", "3", "4", "5", "6", "7", "8", "9">>

\* String(n) of a non-negative integer
RECURSIVE NumStr(_)
NumStr(n) ==
    IF n < 10 THEN <<Digits[n + 1]>>
    ELSE NumStr(n \div 10) \o <<Digits[(n % 10) + 1]>>

\* what Array.prototype.join makes of one element: null gives the empty string
joinStr(x) == IF x = None THEN <<>> ELSE x[1]
joinNum(x) == IF x = None THEN <<>> ELSE NumStr(x[1])

violationKey(v) ==
    joinStr(v.effectiveDirective) \o <<"|">> \o
    joinStr(v.blockedURI) \o <<"|">> \o
    joinStr(v.sourceFile) \o <<"|">> \o
    joinNum(v.lineNumber) \o <<"|">> \o
    joinNum(v.columnNumber)

\* String.prototype.toLowerCase on the tokens of the model
toLowerCase(tok) ==
    CASE tok = "ENFORCE" -> "enforce"
      [] tok = "REPORT" -> "report"
      [] OTHER -> tok

normalizeDisposition(d) ==
    LET val == IF d = None THEN <<>> ELSE [i \in DOMAIN d[1] |-> toLowerCase(d[1][i])]
    IN  IF \E i \in DOMAIN val : val[i] \in {"report", "report-only"} THEN "report-only"
        ELSE IF val = <<"enforce">> THEN "enforce"
        ELSE ""

\* mutant: the first record of a key always survives
mergeViolation_first(a, b) == a

mergeViolation(a, b) ==
    LET da == normalizeDisposition(a.disposition)
        db == normalizeDisposition(b.disposition)
    IN  IF da = "enforce" \/ db = "enforce"
          THEN (IF da = "enforce" THEN a ELSE b)
        ELSE IF da = "report-only" \/ db = "report-only"
          THEN (IF da = "report-only" THEN a ELSE b)
        ELSE a

\* one iteration of the loop of lines 254-263 on the Map m for the raw event e
uniqSet(m, e) ==
    LET v == normalizeViolation(e)
        key == violationKey(v)
    IN  IF \E i \in DOMAIN m : m[i].key = key
          THEN [i \in DOMAIN m |->
                  IF m[i].key = key
                    THEN [key |-> key, v |-> mergeViolation(m[i].v, v)]
                    ELSE m[i]]
          ELSE Append(m, [key |-> key, v |-> v])

\* a securitypolicyviolation, console or requestfailed callback pushes an event
pushViolation ==
    /\ phase = "page"
    /\ Len(violations) < MaxEvents
    /\ \E e \in RawEvents : violations' = Append(violations, e)
    /\ UNCHANGED <<phase, pos, uniq, pageViolations>>
    /\ UNCHANGED notDedupVars

\* page.close(): no more events, the dedup loop begins
pageClose ==
    /\ phase = "page"
    /\ phase' = "dedup"
    /\ pos' = 0
    /\ uniq' = <<>>
    /\ UNCHANGED <<violations, pageViolations>>
    /\ UNCHANGED notDedupVars

\* one iteration of the dedup loop
dedupStep ==
    /\ phase = "dedup"
    /\ pos < Len(violations)
    /\ uniq' = uniqSet(uniq, violations[pos + 1])
    /\ pos' = pos + 1
    /\ UNCHANGED <<phase, violations, pageViolations>>
    /\ UNCHANGED notDedupVars

\* return {..., violations: [...uniq.values()]}
checkUrlReturn ==
    /\ phase = "dedup"
    /\ pos = Len(violations)
    /\ pageViolations' = [i \in DOMAIN uniq |-> uniq[i].v]
    /\ phase' = "done"
    /\ UNCHANGED <<violations, pos, uniq>>
    /\ UNCHANGED notDedupVars

InitDedup ==
    /\ InitOrch
    /\ QueueOff
    /\ ParseOff
    /\ StoreOff
    /\ GroupOff
    /\ MultiOff
    /\ phase = "page"
    /\ violations = <<>>
    /\ pos = 0
    /\ uniq = <<>>
    /\ pageViolations = <<>>

NextDedup ==
    \/ pushViolation
    \/ pageClose
    \/ dedupStep
    \/ checkUrlReturn

SpecDedup == InitDedup /\ [][NextDedup]_vars

(***************************************************************************)
(* Claims about the dedup (checked under SpecDedup)                        *)
(***************************************************************************)
\* the dedup key of the data model: (directive, blockedURI, sourceFile, line, column)
KeyTuple(v) ==
    <<v.effectiveDirective, v.blockedURI, v.sourceFile, v.lineNumber, v.columnNumber>>

\* C7: the page's violation list holds exactly one Violation for each distinct
\* key (directive, blockedURI, sourceFile, line, column) among the events of
\* the page, and no two listed Violations share a key.
C7_OneViolationPerKey ==
    phase = "done" =>
        /\ \A i, j \in DOMAIN pageViolations :
              i # j => KeyTuple(pageViolations[i]) # KeyTuple(pageViolations[j])
        /\ {KeyTuple(pageViolations[i]) : i \in DOMAIN pageViolations}
              = {KeyTuple(normalizeViolation(violations[k])) : k \in DOMAIN violations}

\* enforce above report-only above unknown
Certainty(d) ==
    CASE normalizeDisposition(d) = "enforce" -> 2
      [] normalizeDisposition(d) = "report-only" -> 1
      [] OTHER -> 0

\* the events of the page that the dedup collapses under key
EventsOfKey(key) ==
    {k \in DOMAIN violations : violationKey(normalizeViolation(violations[k])) = key}

\* the whole dedup loop on the events evs
RECURSIVE dedupAll(_)
dedupAll(evs) ==
    IF evs = <<>> THEN <<>>
    ELSE uniqSet(dedupAll(SubSeq(evs, 1, Len(evs) - 1)), evs[Len(evs)])

\* per key, the certainty of the disposition that survives in the Map m
SurvivingCertainty(m) == {<<m[i].key, Certainty(m[i].v.disposition)>> : i \in DOMAIN m}

\* the orders in which the same events can arrive
Arrivals(evs) ==
    {[i \in DOMAIN evs |-> evs[p[i]]] : p \in Permutations(DOMAIN evs)}

\* C8: when events collapse to one dedup key, the surviving disposition is
\* the most certain among them (enforce above report-only above unknown),
\* whatever the order in which the events arrived.
C8_MostCertainDispositionSurvives ==
    phase = "done" =>
        /\ \A i \in DOMAIN uniq : \A k \in EventsOfKey(uniq[i].key) :
              Certainty(uniq[i].v.disposition) >= Certainty(violations[k].disposition)
        /\ \A i \in DOMAIN uniq : \E k \in EventsOfKey(uniq[i].key) :
              Certainty(uniq[i].v.disposition) = Certainty(violations[k].disposition)
        /\ \A other \in Arrivals(violations) :
              SurvivingCertainty(dedupAll(other)) = SurvivingCertainty(uniq)

\* C8 witness: a report-only event, then an enforce event of the same key;
\* the one Violation listed is the enforce one.
C8_Witness ==
    /\ phase = "done"
    /\ Len(violations) = 2
    /\ KeyTuple(violations[1]) = KeyTuple(violations[2])
    /\ normalizeDisposition(violations[1].disposition) = "report-only"
    /\ normalizeDisposition(violations[2].disposition) = "enforce"
    /\ Len(pageViolations) = 1
    /\ pageViolations[1].disposition = Some(<<"enforce">>)

(***************************************************************************)
(* SpecGroup: groupViolations (main.go)                                    *)
(***************************************************************************)
\* the Violations of the reports, as far as the grouping looks at them
Violations ==
    {[EffectiveDirective |-> <<"img-src">>, BlockedOrigin |-> <<"https://cdn.example">>,
      Disposition |-> <<"enforce">>],
     [EffectiveDirective |-> <<"img-src">>, BlockedOrigin |-> <<"inline">>,
      Disposition |-> <<"report">>],
     [EffectiveDirective |-> <<"script-src">>, BlockedOrigin |-> <<"inline">>,
      Disposition |-> <<>>]}

URLs == {"https://a.example/", "https://b.example/"}

\* the lists of exactly n Violations
RECURSIVE ViolationLists(_)
ViolationLists(n) ==
    IF n = 0 THEN {<<>>}
    ELSE {Append(l, v) : l \in ViolationLists(n - 1), v \in Violations}

\* the lists of exactly p PageResults holding at most n Violations together
RECURSIVE PageResultLists(_, _)
PageResultLists(p, n) ==
    IF p = 0 THEN {<<>>}
    ELSE UNION {{<<[URL |-> url, Violations |-> vs]>> \o rest :
                    url \in URLs, vs \in ViolationLists(k),
                    rest \in PageResultLists(p - 1, n - k)} : k \in 0..n}

\* fmt.Sprintf("%s -> %s", v.EffectiveDirective, v.BlockedOrigin)
groupKey(v) == v.EffectiveDirective \o <<" -> ">> \o v.BlockedOrigin

\* mutant: the count goes up only when the group reaches a new page
addViolation_countsPages(groups, url, v) ==
    LET key == groupKey(v)
        g == IF key \in DOMAIN groups
               THEN groups[key]
               ELSE [Key |-> key,
                     EffectiveDirective |-> v.EffectiveDirective,
                     BlockedOrigin |-> v.BlockedOrigin,
                     Count |-> 0,
                     Pages |-> [u \in {} |-> <<>>]]
        onPage == IF url \in DOMAIN g.Pages THEN g.Pages[url] ELSE <<>>
        g2 == [g EXCEPT !.Count = IF url \in DOMAIN g.Pages THEN @ ELSE @ + 1,
                        !.Pages = [u \in DOMAIN g.Pages \cup {url} |->
                                     IF u = url THEN Append(onPage, v) ELSE g.Pages[u]]]
    IN  [k \in DOMAIN groups \cup {key} |-> IF k = key THEN g2 ELSE groups[k]]

\* the body of the inner loop (lines 932-944): Violation v of page url goes
\* into the map groups
addViolation(groups, url, v) ==
    LET key == groupKey(v)
        g == IF key \in DOMAIN groups
               THEN groups[key]
               ELSE [Key |-> key,
                     EffectiveDirective |-> v.EffectiveDirective,
                     BlockedOrigin |-> v.BlockedOrigin,
                     Count |-> 0,
                     Pages |-> [u \in {} |-> <<>>]]
        onPage == IF url \in DOMAIN g.Pages THEN g.Pages[url] ELSE <<>>
        g2 == [g EXCEPT !.Count = @ + 1,
                        !.Pages = [u \in DOMAIN g.Pages \cup {url} |->
                                     IF u = url THEN Append(onPage, v) ELSE g.Pages[u]]]
    IN  [k \in DOMAIN groups \cup {key} |-> IF k = key THEN g2 ELSE groups[k]]

RECURSIVE addViolations(_, _, _)
addViolations(groups, url, vs) ==
    IF vs = <<>> THEN groups
    ELSE addViolations(addViolation(groups, url, Head(vs)), url, Tail(vs))

\* the loops of lines 929-946: the map groups for the list rs
RECURSIVE groupsOf(_)
groupsOf(rs) ==
    IF rs = <<>> THEN [k \in {} |-> <<>>]
    ELSE LET r == rs[Len(rs)]
         IN  addViolations(groupsOf(SubSeq(rs, 1, Len(rs) - 1)), r.URL, r.Violations)

\* for _, g := range groups: Go iterates a map in an order that is not
\* specified and differs from one iteration to the next
rangeOrders(groups) ==
    LET n == Cardinality(DOMAIN groups)
    IN  {[i \in 1..n |-> groups[ks[i]]] :
            ks \in {f \in [1..n -> DOMAIN groups] : \A i, j \in 1..n : i # j => f[i] # f[j]}}

\* mutant: the comparison is the wrong way round
swapWanted_reversed(gi, gj) == gj.Count < gi.Count

\* line 955: if ordered[j].Count > ordered[i].Count
swapWanted(gi, gj) == gj.Count > gi.Count

\* lines 953-959, from the loop indices i, j (1-based) on
RECURSIVE bubbleSort(_, _, _)
bubbleSort(seq, i, j) ==
    IF i > Len(seq) THEN seq
    ELSE IF j > Len(seq) THEN bubbleSort(seq, i + 1, i + 2)
    ELSE IF swapWanted(seq[i], seq[j])
           THEN bubbleSort([seq EXCEPT ![i] = seq[j], ![j] = seq[i]], i, j + 1)
           ELSE bubbleSort(seq, i, j + 1)

\* a call groupViolations(results)
groupViolations ==
    /\ \E order \in rangeOrders(groupsOf(results)) :
         ordered' = bubbleSort(order, 1, 2)
    /\ previous' = ordered
    /\ calls' = IF calls < 2 THEN calls + 1 ELSE calls
    /\ UNCHANGED results
    /\ UNCHANGED notGroupVars

InitGroup ==
    /\ InitOrch
    /\ QueueOff
    /\ ParseOff
    /\ StoreOff
    /\ DedupOff
    /\ MultiOff
    /\ results \in UNION {PageResultLists(p, MaxViolations) : p \in 0..MaxPages}
    /\ ordered = <<>>
    /\ previous = <<>>
    /\ calls = 0

NextGroup == groupViolations

SpecGroup == InitGroup /\ [][NextGroup]_vars

(***************************************************************************)
(* Claims about groupViolations (checked under SpecGroup)                  *)
(***************************************************************************)
\* C9: the groups groupViolations returns are in non-increasing order of
\* count: no group is followed, anywhere later, by one with a larger count.
C9_SortedByCount ==
    calls >= 1 =>
        \A i, j \in DOMAIN ordered : i < j => ordered[i].Count >= ordered[j].Count

\* C9 witness: a result of two groups, the first with the larger count.
C9_Witness ==
    /\ calls >= 1
    /\ Len(ordered) = 2
    /\ ordered[1].Count = 2
    /\ ordered[2].Count = 1

\* C10: two calls on the same list return the same sequence of groups, the
\* order among groups of equal count included.
C10_Deterministic ==
    calls = 2 => ordered = previous

(***************************************************************************)
(* SpecKeys: groupViolations, on fields that can hold " -> "               *)
(*                                                                         *)
(* The fields of a Violation are what the page under test passed to        *)
(* __reportCspViolation (csp-check.mjs, lines 146-166): any text.          *)
(***************************************************************************)
KeyViolations ==
    {[EffectiveDirective |-> <<"img-src">>, BlockedOrigin |-> <<"inline">>,
      Disposition |-> <<"enforce">>],
     [EffectiveDirective |-> <<"img-src">>, BlockedOrigin |-> <<"inline", " -> ", "x">>,
      Disposition |-> <<"enforce">>],
     [EffectiveDirective |-> <<"img-src", " -> ", "inline">>, BlockedOrigin |-> <<"x">>,
      Disposition |-> <<"enforce">>],
     [EffectiveDirective |-> <<"script-src">>, BlockedOrigin |-> <<"inline">>,
      Disposition |-> <<"enforce">>]}

\* the lists of exactly n Violations out of pool
RECURSIVE ViolationListsOf(_, _)
ViolationListsOf(pool, n) ==
    IF n = 0 THEN {<<>>}
    ELSE {Append(l, v) : l \in ViolationListsOf(pool, n - 1), v \in pool}

\* the lists of exactly p PageResults holding at most n Violations of pool together
RECURSIVE PageResultListsOf(_, _, _)
PageResultListsOf(pool, p, n) ==
    IF p = 0 THEN {<<>>}
    ELSE UNION {{<<[URL |-> url, Violations |-> vs]>> \o rest :
                    url \in URLs, vs \in ViolationListsOf(pool, k),
                    rest \in PageResultListsOf(pool, p - 1, n - k)} : k \in 0..n}

InitKeys ==
    /\ InitOrch
    /\ QueueOff
    /\ ParseOff
    /\ StoreOff
    /\ DedupOff
    /\ MultiOff
    /\ results \in UNION {PageResultListsOf(KeyViolations, p, MaxViolations) : p \in 0..MaxPages}
    /\ ordered = <<>>
    /\ previous = <<>>
    /\ calls = 0

SpecKeys == InitKeys /\ [][NextGroup]_vars

(***************************************************************************)
(* Claims about the group key (checked under SpecKeys)                     *)
(***************************************************************************)
\* the Violations of the argument, each with the URL of its page
InputViolations ==
    {<<r, k>> : r \in DOMAIN results, k \in 1..MaxViolations} \cap
    UNION {{<<r, k>> : k \in DOMAIN results[r].Violations} : r \in DOMAIN results}

ViolationAt(rk) == results[rk[1]].Violations[rk[2]]

\* the (effectiveDirective, blockedOrigin) pair of a Violation or of a group
PairOf(x) == <<x.EffectiveDirective, x.BlockedOrigin>>

\* the input Violations that have the pair pr
InputOfPair(pr) == {rk \in InputViolations : PairOf(ViolationAt(rk)) = pr}

\* C14: groupViolations returns exactly one group for each distinct
\* (effectiveDirective, blockedOrigin) pair among the input violations; the
\* group's count is the number of input violations with that pair, and its
\* pages mapping has an entry for exactly the page URLs with such a violation.
C14_OneGroupPerPair ==
    calls >= 1 =>
        /\ {PairOf(ordered[i]) : i \in DOMAIN ordered}
              = {PairOf(ViolationAt(rk)) : rk \in InputViolations}
        /\ \A i, j \in DOMAIN ordered : i # j => PairOf(ordered[i]) # PairOf(ordered[j])
        /\ \A i \in DOMAIN ordered :
              /\ ordered[i].Count = Cardinality(InputOfPair(PairOf(ordered[i])))
              /\ DOMAIN ordered[i].Pages
                    = {results[rk[1]].URL : rk \in InputOfPair(PairOf(ordered[i]))}

(***************************************************************************)
(* SpecMulti: the groupings of the run page (main.go, lines 963-1064)      *)
(*                                                                         *)
(* A disposition is a sequence of tokens: " " is white space, every other  *)
(* token a word. An engine name is compared as Go compares strings, byte   *)
(* by byte.                                                                *)
(***************************************************************************)
\* the Violations of the stored reports, as far as the run page looks at them
MultiViolations ==
    {[EffectiveDirective |-> <<"img-src">>, BlockedOrigin |-> <<"inline">>,
      Disposition |-> <<"enforce">>],
     [EffectiveDirective |-> <<"img-src">>, BlockedOrigin |-> <<"inline">>,
      Disposition |-> <<" ", "Report-Only">>],
     [EffectiveDirective |-> <<"script-src">>, BlockedOrigin |-> <<"inline">>,
      Disposition |-> <<>>],
     [EffectiveDirective |-> <<"script-src">>, BlockedOrigin |-> <<"inline">>,
      Disposition |-> <<"unknown">>]}

\* the keys of multi.Browsers: the three engines and an unexpected one
BrowserNames == Engines \cup {"edge"}

\* the bytes of an engine name
NameBytes(name) ==
    CASE name = "chromium" -> <<99, 104, 114, 111, 109, 105, 117, 109>>
      [] name = "firefox" -> <<102, 105, 114, 101, 102, 111, 120>>
      [] name = "webkit" -> <<119, 101, 98, 107, 105, 116>>
      [] name = "edge" -> <<101, 100, 103, 101>>

\* Go's < on strings: the first differing byte decides, a proper prefix is smaller
RECURSIVE bytesLess(_, _)
bytesLess(a, b) ==
    IF b = <<>> THEN FALSE
    ELSE IF a = <<>> THEN TRUE
    ELSE IF Head(a) # Head(b) THEN Head(a) < Head(b)
    ELSE bytesLess(Tail(a), Tail(b))

stringLess(s, t) == bytesLess(NameBytes(s), NameBytes(t))

\* one Violation, or none, found by one engine on one page
Entries == [Name : BrowserNames, URL : URLs,
            Found : {<<>>} \cup {<<v>> : v \in MultiViolations}]

\* the lists of at most n Entries
RECURSIVE EntryLists(_)
EntryLists(n) ==
    IF n = 0 THEN {<<>>}
    ELSE EntryLists(n - 1) \cup
         {Append(l, e) : l \in {x \in EntryLists(n - 1) : Len(x) = n - 1}, e \in Entries}

\* the Results an engine's Report holds for the entries es: one PageResult for
\* each page URL, in the order the pages were visited
RECURSIVE pageResultsOf(_)
pageResultsOf(es) ==
    IF es = <<>> THEN <<>>
    ELSE LET before == pageResultsOf(SubSeq(es, 1, Len(es) - 1))
             e == es[Len(es)]
         IN  IF \E i \in DOMAIN before : before[i].URL = e.URL
               THEN [i \in DOMAIN before |->
                       IF before[i].URL = e.URL
                         THEN [before[i] EXCEPT !.Violations = @ \o e.Found]
                         ELSE before[i]]
               ELSE Append(before, [URL |-> e.URL, Violations |-> e.Found])

\* multi.Browsers of a run whose engines found the entries es
multiBrowsersOf(es) ==
    [name \in {es[i].Name : i \in DOMAIN es} |->
        pageResultsOf(SelectSeq(es, LAMBDA e : e.Name = name))]

\* strings.TrimSpace
WhiteSpace == {" ", "\n"}

RECURSIVE TrimLeft(_)
TrimLeft(s) == IF s # <<>> /\ Head(s) \in WhiteSpace THEN TrimLeft(Tail(s)) ELSE s

RECURSIVE TrimRight(_)
TrimRight(s) ==
    IF s # <<>> /\ s[Len(s)] \in WhiteSpace
      THEN TrimRight(SubSeq(s, 1, Len(s) - 1))
      ELSE s

TrimSpace(s) == TrimRight(TrimLeft(s))

\* strings.ToLower, on the words of the model
lowerWord(tok) ==
    CASE tok = "Report-Only" -> "report-only"
      [] tok = "Enforce" -> "enforce"
      [] OTHER -> tok

ToLower(s) == [i \in DOMAIN s |-> lowerWord(s[i])]

\* strings.Contains(a, "report")
ContainsReport(a) == \E i \in DOMAIN a : a[i] \in {"report", "report-only"}

\* mutant: an empty disposition is in neither bucket
isDisposition_noEmpty(actual, want) ==
    LET a == ToLower(TrimSpace(actual))
    IN  IF want = "report-only" THEN ContainsReport(a)
        ELSE a = <<"enforce">>

isDisposition(actual, want) ==
    LET a == ToLower(TrimSpace(actual))
    IN  IF want = "report-only" THEN ContainsReport(a)
        ELSE a = <<>> \/ a = <<"enforce">>

\* everything a call groupViolations(rs) can return
groupViolationsOf(rs) ==
    {bubbleSort(order, 1, 2) : order \in rangeOrders(groupsOf(rs))}

\* lines 999-1011: the pages with the violations of one disposition, pages
\* left without a violation dropped
filterResults(rs, disposition) ==
    LET nr(r) == [r EXCEPT !.Violations =
                      SelectSeq(r.Violations,
                                LAMBDA v : isDisposition(v.Disposition, disposition))]
    IN  SelectSeq([i \in DOMAIN rs |-> nr(rs[i])], LAMBDA r : Len(r.Violations) > 0)

groupViolationsByDisposition(rs, disposition) ==
    groupViolationsOf(filterResults(rs, disposition))

\* lines 582-611: the []BrowserReport of the run page, the engines of browsers
\* first and in that order, then the other keys of the map in any order
RECURSIVE browserReportsOf(_, _)
browserReportsOf(mb, names) ==
    IF names = <<>> THEN {<<>>}
    ELSE {<<[Name |-> Head(names), Results |-> mb[Head(names)], Groups |-> g, Warns |-> w]>>
            \o rest :
              g \in groupViolationsByDisposition(mb[Head(names)], "enforce"),
              w \in groupViolationsByDisposition(mb[Head(names)], "report-only"),
              rest \in browserReportsOf(mb, Tail(names))}

\* the orders in which a set of names can be ranged over
namesOrders(S) ==
    LET n == Cardinality(S)
    IN  {f \in [1..n -> S] : \A i, j \in 1..n : i # j => f[i] # f[j]}

\* the keys of mb in the order of lines 582-611
keyOrders(mb) ==
    LET known == SelectSeq(browsers, LAMBDA b : b \in DOMAIN mb)
    IN  {known \o other : other \in namesOrders(DOMAIN mb \ Engines)}

\* mutant: the names are sorted the other way
nameSwapWanted_descending(ni, nj) == stringLess(ni, nj)

\* lines 988 and 1048: if names[j] < names[i]
nameSwapWanted(ni, nj) == stringLess(nj, ni)

\* lines 986-992 and 1046-1052, from the loop indices i, j (1-based) on
RECURSIVE sortNames(_, _, _)
sortNames(names, i, j) ==
    IF i > Len(names) THEN names
    ELSE IF j > Len(names) THEN sortNames(names, i + 1, i + 2)
    ELSE IF nameSwapWanted(names[i], names[j])
           THEN sortNames([names EXCEPT ![i] = names[j], ![j] = names[i]], i, j + 1)
           ELSE sortNames(names, i, j + 1)

\* the concatenation of the Results of the reports bl
RECURSIVE allResults(_)
allResults(bl) ==
    IF bl = <<>> THEN <<>> ELSE Head(bl).Results \o allResults(Tail(bl))

\* groupBrowsers[key] after the loops over bl: the names of the reports that
\* hold a Violation of that key
groupBrowsers(bl, key) ==
    {bl[b].Name : b \in {b \in DOMAIN bl :
        \E r \in DOMAIN bl[b].Results : \E k \in DOMAIN bl[b].Results[r].Violations :
            groupKey(bl[b].Results[r].Violations[k]) = key}}

\* lines 979-995 and 1040-1055: a MergedGroup for each group, its names ranged
\* over in any order and then sorted
RECURSIVE mergedGroups(_, _)
mergedGroups(grouped, bl) ==
    IF grouped = <<>> THEN {<<>>}
    ELSE {<<[Group |-> Head(grouped), Browsers |-> sortNames(names, 1, 2)]>> \o rest :
            names \in namesOrders(groupBrowsers(bl, Head(grouped).Key)),
            rest \in mergedGroups(Tail(grouped), bl)}

\* everything a call groupViolationsMulti(bl) can return
groupViolationsMultiOf(bl) ==
    UNION {mergedGroups(grouped, bl) : grouped \in groupViolationsOf(allResults(bl))}

filteredReports_keepAll(bl, disposition) == bl

\* lines 1016-1038: the reports with the violations of one disposition only
filteredReports(bl, disposition) ==
    [b \in DOMAIN bl |-> [bl[b] EXCEPT !.Results = filterResults(@, disposition)]]

\* everything a call groupViolationsMultiByDisposition(bl, disposition) can return
groupViolationsMultiByDispositionOf(bl, disposition) ==
    LET fl == filteredReports(bl, disposition)
    IN  UNION {mergedGroups(grouped, fl) : grouped \in groupViolationsOf(allResults(fl))}

\* a call groupViolationsMulti on the reports of the run
groupViolationsMulti ==
    /\ \E ks \in keyOrders(multiBrowsers) :
       \E bl \in browserReportsOf(multiBrowsers, ks) :
       \E out \in groupViolationsMultiOf(bl) :
         view' = [fn |-> "groupViolationsMulti", Browsers |-> bl, Merged |-> out]
    /\ UNCHANGED multiBrowsers
    /\ UNCHANGED notMultiVars

\* GET /runs/<id>: lines 582-618 of handleRunDetail
handleRunDetail ==
    /\ \E ks \in keyOrders(multiBrowsers) :
       \E bl \in browserReportsOf(multiBrowsers, ks) :
       \E err \in groupViolationsMultiByDispositionOf(bl, "enforce") :
       \E warn \in groupViolationsMultiByDispositionOf(bl, "report-only") :
         view' = [fn |-> "handleRunDetail", Browsers |-> bl,
                  MergedErr |-> err, MergedWarn |-> warn]
    /\ UNCHANGED multiBrowsers
    /\ UNCHANGED notMultiVars

InitMulti ==
    /\ InitOrch
    /\ QueueOff
    /\ ParseOff
    /\ StoreOff
    /\ DedupOff
    /\ GroupOff
    /\ multiBrowsers \in {multiBrowsersOf(es) : es \in EntryLists(MaxEntries) \ {<<>>}}
    /\ view = [fn |-> "none"]

NextMulti ==
    \/ groupViolationsMulti
    \/ handleRunDetail

SpecMulti == InitMulti /\ [][NextMulti]_vars

(***************************************************************************)
(* Claims about the run page's groupings (checked under SpecMulti)         *)
(***************************************************************************)
\* the MergedGroups computed last
MergedGroupsOfView ==
    CASE view.fn = "groupViolationsMulti" -> Range(view.Merged)
      [] view.fn = "handleRunDetail" -> Range(view.MergedErr) \cup Range(view.MergedWarn)
      [] OTHER -> {}

\* the GroupedViolations computed last: those groupViolations returned for one
\* engine's Results, and those inside the MergedGroups
GroupedViolationsOfView ==
    {m.Group : m \in MergedGroupsOfView} \cup
    (IF view.fn = "none" THEN {}
     ELSE UNION {Range(view.Browsers[b].Groups) \cup Range(view.Browsers[b].Warns) :
                    b \in DOMAIN view.Browsers})

\* C11: in every MergedGroup of groupViolationsMulti and of
\* groupViolationsMultiByDisposition the list of engine names is strictly
\* ascending in Go's string order (so without duplicates); it is not empty and
\* names engines of the run only.
C11_EngineNamesAscending ==
    \A m \in MergedGroupsOfView :
        /\ \A i, j \in DOMAIN m.Browsers :
              i < j => stringLess(m.Browsers[i], m.Browsers[j])
        /\ Len(m.Browsers) >= 1
        /\ Range(m.Browsers) \subseteq DOMAIN multiBrowsers

\* C11 witness: a group found by firefox and by the unexpected engine "edge",
\* which the page lists after firefox; the names come out as edge, firefox.
C11_Witness ==
    /\ view.fn = "handleRunDetail"
    /\ \E i \in DOMAIN view.MergedErr :
          /\ view.MergedErr[i].Browsers = <<"edge", "firefox">>
          /\ view.MergedErr[i].Group.Count = 2
    /\ view.Browsers[1].Name = "firefox"

\* the number of elements of the sequence s that satisfy Test
CountIn(s, Test(_)) == Cardinality({i \in DOMAIN s : Test(s[i])})

\* the sum of f[x] over the domain of the function f of numbers
RECURSIVE SumOf(_)
SumOf(f) ==
    IF DOMAIN f = {} THEN 0
    ELSE LET x == CHOOSE x \in DOMAIN f : TRUE
         IN  f[x] + SumOf([y \in DOMAIN f \ {x} |-> f[y]])

\* C13: every GroupedViolation, returned by groupViolations or inside a
\* MergedGroup, has a count equal to the sum of the lengths of the violation
\* lists of its pages mapping.
C13_CountIsSumOfPages ==
    \A g \in GroupedViolationsOfView :
        g.Count = SumOf([u \in DOMAIN g.Pages |-> Len(g.Pages[u])])

\* C13 witness: two engines report the same page URL with a violation of the
\* same key: one group, one page entry with two violations, count 2.
C13_Witness ==
    /\ view.fn = "groupViolationsMulti"
    /\ \E m \in MergedGroupsOfView :
          /\ Len(m.Browsers) = 2
          /\ m.Group.Count = 2
          /\ Cardinality(DOMAIN m.Group.Pages) = 1

\* the disposition is in one of the two buckets: enforce (or empty), or a
\* report-only one, whatever the case and the white space around it
Recognized(v) ==
    LET a == ToLower(TrimSpace(v.Disposition))
    IN  a = <<>> \/ a = <<"enforce">> \/ ContainsReport(a)

\* how often Violation v of page url occurs in the PageResults rs
OccursInResults(rs, url, v) ==
    SumOf([i \in {i \in DOMAIN rs : rs[i].URL = url} |->
              CountIn(rs[i].Violations, LAMBDA x : x = v)])

\* how often Violation v of page url occurs in the groups gs
OccursInGroups(gs, url, v) ==
    SumOf([i \in {i \in DOMAIN gs : url \in DOMAIN gs[i].Pages} |->
              CountIn(gs[i].Pages[url], LAMBDA x : x = v)])

\* C12: for the Results of an engine whose violations all have a recognized
\* disposition, the groups filtered by "enforce" and those filtered by
\* "report-only" partition the violations: each violation of each page is in
\* exactly one of the two outputs, as often as in the input.
C12_DispositionsPartition ==
    view.fn = "handleRunDetail" =>
        \A b \in DOMAIN view.Browsers :
            LET br == view.Browsers[b]
            IN  (\A r \in DOMAIN br.Results : \A k \in DOMAIN br.Results[r].Violations :
                    Recognized(br.Results[r].Violations[k]))
                => \A url \in URLs : \A v \in MultiViolations :
                      /\ OccursInGroups(br.Groups, url, v) + OccursInGroups(br.Warns, url, v)
                            = OccursInResults(br.Results, url, v)
                      /\ OccursInGroups(br.Groups, url, v) = 0
                            \/ OccursInGroups(br.Warns, url, v) = 0

\* C12 witness: one page of one engine with a violation without disposition
\* and a report-only one: one group in each output.
C12_Witness ==
    /\ view.fn = "handleRunDetail"
    /\ \E b \in DOMAIN view.Browsers :
          /\ Len(view.Browsers[b].Results) = 1
          /\ Len(view.Browsers[b].Results[1].Violations) = 2
          /\ \E k \in 1..2 : view.Browsers[b].Results[1].Violations[k].Disposition = <<>>
          /\ Len(view.Browsers[b].Groups) = 1
          /\ Len(view.Browsers[b].Warns) = 1

\* the engines of the run with a violation of the disposition under the key
Contributors(key, disposition) ==
    {b \in DOMAIN multiBrowsers :
        \E r \in DOMAIN multiBrowsers[b] :
        \E k \in DOMAIN multiBrowsers[b][r].Violations :
           LET v == multiBrowsers[b][r].Violations[k]
           IN  /\ isDisposition(v.Disposition, disposition)
               /\ groupKey(v) = key}

\* C27: on the run page each MergedGroup of the enforce partition names
\* exactly the engines that reported a violation passing the enforce
\* filter under the group's key, and each MergedGroup of the report-only
\* partition exactly those with one passing the report-only filter: an
\* engine whose violations under the key all belong to the other partition
\* is not named, every contributing engine is, and no list is empty.
C27_EnginesPerPartition ==
    view.fn = "handleRunDetail" =>
        /\ \A i \in DOMAIN view.MergedErr :
              /\ Range(view.MergedErr[i].Browsers) =
                    Contributors(view.MergedErr[i].Group.Key, "enforce")
              /\ view.MergedErr[i].Browsers # <<>>
        /\ \A i \in DOMAIN view.MergedWarn :
              /\ Range(view.MergedWarn[i].Browsers) =
                    Contributors(view.MergedWarn[i].Group.Key, "report-only")
              /\ view.MergedWarn[i].Browsers # <<>>

\* C27 witness: chromium reported the key enforced and firefox reported it
\* report-only; each partition has the group and names its own engine.
C27_Witness ==
    /\ view.fn = "handleRunDetail"
    /\ Len(view.MergedErr) = 1
    /\ Len(view.MergedWarn) = 1
    /\ view.MergedErr[1].Group.Key = view.MergedWarn[1].Group.Key
    /\ view.MergedErr[1].Browsers = <<"chromium">>
    /\ view.MergedWarn[1].Browsers = <<"firefox">>


(***************************************************************************)
(* SpecParse: the parsers of main.go                                       *)
(***************************************************************************)
defaultConfig ==
    [WaitUntil |-> "networkidle",
     NavTimeoutMs |-> 45000,
     SettleWaitMs |-> 3000,
     Concurrency |-> 1,
     BetweenURLMs |-> 600,
     UserAgent |-> "Mozilla/5.0 ...",
     AcceptLanguage |-> "en-US,en;q=0.9",
     Browser |-> "chromium"]

\* what a config_json column can hold: white space only, text that
\* json.Unmarshal rejects, or an object; a field of the object is None
\* (missing, or null) or Some(value)
StoredInts == {None} \cup {Some(n) : n \in (0 - MaxConfigInt)..MaxConfigInt}
StoredWaitUntils == {None, Some(""), Some("load"), Some("networkidle"), Some("bogus")}
StoredTexts == {None, Some(""), Some("x")}

ConfigObjects ==
    [kind : {"object"},
     waitUntil : StoredWaitUntils,
     navTimeoutMs : StoredInts,
     settleWaitMs : StoredInts,
     concurrency : StoredInts,
     betweenUrlMs : StoredInts,
     userAgent : StoredTexts,
     acceptLanguage : StoredTexts,
     browser : StoredTexts]

StoredConfigs == {[kind |-> "blank"], [kind |-> "invalid"]} \cup ConfigObjects

\* json.Unmarshal into a field that holds old: a missing or null member
\* leaves the field as it is
unmarshalField(old, member) == IF member = None THEN old ELSE member[1]

\* json.Unmarshal([]byte(raw), &cfg)
unmarshalConfig(cfg, raw) ==
    [WaitUntil |-> unmarshalField(cfg.WaitUntil, raw.waitUntil),
     NavTimeoutMs |-> unmarshalField(cfg.NavTimeoutMs, raw.navTimeoutMs),
     SettleWaitMs |-> unmarshalField(cfg.SettleWaitMs, raw.settleWaitMs),
     Concurrency |-> unmarshalField(cfg.Concurrency, raw.concurrency),
     BetweenURLMs |-> unmarshalField(cfg.BetweenURLMs, raw.betweenUrlMs),
     UserAgent |-> unmarshalField(cfg.UserAgent, raw.userAgent),
     AcceptLanguage |-> unmarshalField(cfg.AcceptLanguage, raw.acceptLanguage),
     Browser |-> unmarshalField(cfg.Browser, raw.browser)]

\* lines 1093-1116: the repairs after a successful Unmarshal
repairConfig(cfg) ==
    [WaitUntil |-> IF cfg.WaitUntil = "" THEN "domcontentloaded" ELSE cfg.WaitUntil,
     NavTimeoutMs |-> IF cfg.NavTimeoutMs <= 0 THEN 30000 ELSE cfg.NavTimeoutMs,
     SettleWaitMs |-> IF cfg.SettleWaitMs < 0 THEN 0 ELSE cfg.SettleWaitMs,
     Concurrency |-> IF cfg.Concurrency <= 0 THEN 1 ELSE cfg.Concurrency,
     BetweenURLMs |-> IF cfg.BetweenURLMs < 0 THEN 0 ELSE cfg.BetweenURLMs,
     UserAgent |-> IF cfg.UserAgent = "" THEN defaultConfig.UserAgent ELSE cfg.UserAgent,
     AcceptLanguage |->
        IF cfg.AcceptLanguage = "" THEN defaultConfig.AcceptLanguage ELSE cfg.AcceptLanguage,
     Browser |-> IF cfg.Browser = "" THEN defaultConfig.Browser ELSE cfg.Browser]

\* what parseConfig(raw) returns
parseConfigOf(raw) ==
    IF raw.kind = "blank" THEN [fn |-> "parseConfig", cfg |-> defaultConfig, err |-> "nil"]
    ELSE IF raw.kind = "invalid"
      THEN [fn |-> "parseConfig", cfg |-> defaultConfig, err |-> "unmarshal"]
    ELSE [fn |-> "parseConfig", cfg |-> repairConfig(unmarshalConfig(defaultConfig, raw)),
          err |-> "nil"]

\* a call parseConfig(p.ConfigJSON)
parseConfig ==
    /\ arg.fn = "parseConfig"
    /\ result.fn = "none"
    /\ result' = parseConfigOf(arg.raw)
    /\ UNCHANGED arg
    /\ UNCHANGED notParseVars

(***************************************************************************)
(* URLs. A text is a sequence of tokens: "\n", " ", "#", "/", the letter   *)
(* "h", and the words "https:", "http:", "ftp:" (a scheme name with its    *)
(* colon); "%20" and "%23" are the escapes of " " and "#". The token       *)
(* "https://" of an input stands for the three tokens "https:", "/", "/".  *)
(***************************************************************************)
SchemeWords == {"https:", "http:", "ftp:"}

TextTokens == {"\n", " ", "#", "/", "h", "https://", "http://", "ftp://"}

\* the texts of at most n tokens
RECURSIVE Texts(_)
Texts(n) ==
    IF n = 0 THEN {<<>>}
    ELSE Texts(n - 1) \cup
         {Append(t, tok) : t \in {x \in Texts(n - 1) : Len(x) = n - 1}, tok \in TextTokens}

\* the characters of an input text
RECURSIVE explode(_)
explode(t) ==
    IF t = <<>> THEN <<>>
    ELSE (CASE Head(t) = "https://" -> <<"https:", "/", "/">>
            [] Head(t) = "http://" -> <<"http:", "/", "/">>
            [] Head(t) = "ftp://" -> <<"ftp:", "/", "/">>
            [] OTHER -> <<Head(t)>>) \o explode(Tail(t))

\* strings.Index(s, tok), 1-based; 0 when tok does not occur in s
IndexOf(s, tok) ==
    IF \E i \in DOMAIN s : s[i] = tok
      THEN CHOOSE i \in DOMAIN s : s[i] = tok /\ \A j \in 1..(i - 1) : s[j] # tok
      ELSE 0

\* strings.HasPrefix
HasPrefix(s, prefix) == Len(s) >= Len(prefix) /\ SubSeq(s, 1, Len(prefix)) = prefix

\* strings.Split(s, sep), sep one token
RECURSIVE Split(_, _)
Split(s, sep) ==
    LET i == IndexOf(s, sep)
    IN  IF i = 0 THEN <<s>>
        ELSE <<SubSeq(s, 1, i - 1)>> \o Split(SubSeq(s, i + 1, Len(s)), sep)

\* net/url getScheme, from position i on: letters up to a colon are the
\* scheme; any other character before a colon means there is none
RECURSIVE getScheme(_, _)
getScheme(u, i) ==
    IF i > Len(u) THEN [scheme |-> <<>>, rest |-> u]
    ELSE IF u[i] = "h" THEN getScheme(u, i + 1)
    ELSE IF u[i] \in SchemeWords
           THEN [scheme |-> SubSeq(u, 1, i), rest |-> SubSeq(u, i + 1, Len(u))]
    ELSE [scheme |-> <<>>, rest |-> u]

\* net/url unescape, for a path or a fragment
unescape(s) ==
    [i \in DOMAIN s |-> CASE s[i] = "%20" -> " " [] s[i] = "%23" -> "#" [] OTHER -> s[i]]

\* net/url escape, for a path or a fragment
escape(s) ==
    [i \in DOMAIN s |-> CASE s[i] = " " -> "%20" [] s[i] = "#" -> "%23" [] OTHER -> s[i]]

\* net/url parseHost rejects: a space or an escape in the host, and anything
\* but digits after the last colon
hostInvalid(authority) ==
    \/ \E i \in DOMAIN authority : authority[i] \in {" ", "%20", "%23"}
    \/ \E i \in DOMAIN authority :
          /\ authority[i] \in SchemeWords
          /\ \A j \in (i + 1)..Len(authority) : authority[j] \notin SchemeWords
          /\ i < Len(authority)

ParseError == [err |-> TRUE, Scheme |-> <<>>, Opaque |-> <<>>, Host |-> <<>>,
               Path |-> <<>>, Fragment |-> <<>>]

\* net/url Parse, as far as normalizeURL looks at the result
urlParse(raw) ==
    IF \E i \in DOMAIN raw : raw[i] = "\n" THEN ParseError
    ELSE
    LET hash == IndexOf(raw, "#")
        u == IF hash = 0 THEN raw ELSE SubSeq(raw, 1, hash - 1)
        frag == IF hash = 0 THEN <<>> ELSE SubSeq(raw, hash + 1, Len(raw))
        gs == getScheme(u, 1)
        rest == gs.rest
        slashes(n) == Len(rest) >= n /\ \A i \in 1..n : rest[i] = "/"
        after == SubSeq(rest, 3, Len(rest))
        cut == IndexOf(after, "/")
        authority == IF cut = 0 THEN after ELSE SubSeq(after, 1, cut - 1)
        path == IF cut = 0 THEN <<>> ELSE SubSeq(after, cut, Len(after))
        segment == IF IndexOf(rest, "/") = 0 THEN rest
                   ELSE SubSeq(rest, 1, IndexOf(rest, "/") - 1)
    IN  IF ~slashes(1) /\ gs.scheme # <<>>
          THEN [err |-> FALSE, Scheme |-> gs.scheme, Opaque |-> rest, Host |-> <<>>,
                Path |-> <<>>, Fragment |-> unescape(frag)]
        ELSE IF ~slashes(1) /\ \E i \in DOMAIN segment : segment[i] \in SchemeWords
          THEN ParseError
        ELSE IF slashes(2) /\ (gs.scheme # <<>> \/ ~slashes(3))
          THEN IF hostInvalid(authority) THEN ParseError
               ELSE [err |-> FALSE, Scheme |-> gs.scheme, Opaque |-> <<>>,
                     Host |-> authority, Path |-> unescape(path),
                     Fragment |-> unescape(frag)]
        ELSE [err |-> FALSE, Scheme |-> gs.scheme, Opaque |-> <<>>, Host |-> <<>>,
              Path |-> unescape(rest), Fragment |-> unescape(frag)]

\* net/url (*URL).String
urlString(u) ==
    LET path == escape(u.Path)
    IN  u.Scheme
        \o (IF u.Opaque # <<>> THEN u.Opaque
            ELSE (IF (u.Scheme # <<>> \/ u.Host # <<>>) /\ (u.Host # <<>> \/ u.Path # <<>>)
                    THEN <<"/", "/">> \o u.Host ELSE <<>>)
                 \o (IF path # <<>> /\ path[1] # "/" /\ u.Host # <<>> THEN <<"/">> ELSE <<>>)
                 \o path)
        \o (IF u.Fragment # <<>> THEN <<"#">> \o escape(u.Fragment) ELSE <<>>)

\* mutant: the path is left as it was parsed
fixPath_asParsed(path) == path

\* lines 922-924
fixPath(path) == IF path = <<>> THEN <<"/">> ELSE path

\* what normalizeURL(raw) returns
normalizeURLOf(raw) ==
    LET u == urlParse(raw)
    IN  IF u.err \/ u.Scheme = <<>> \/ u.Host = <<>>
          THEN [url |-> <<>>, ok |-> FALSE]
          ELSE [url |-> urlString([u EXCEPT !.Path = fixPath(@)]), ok |-> TRUE]

\* mutant: a line is not cut at '#'
cutComment_keep(line) == line

\* lines 902-904
cutComment(line) ==
    IF IndexOf(line, "#") > 0
      THEN TrimSpace(SubSeq(line, 1, IndexOf(line, "#") - 1))
      ELSE line

\* lines 895-912: what one line of the text adds to urls
urlsOfLine(raw) ==
    LET line == TrimSpace(raw)
        cutLine == cutComment(line)
    IN  IF line = <<>> THEN <<>>
        ELSE IF HasPrefix(line, <<"#">>) THEN <<>>
        ELSE IF cutLine = <<>> THEN <<>>
        ELSE IF HasPrefix(cutLine, <<"http:", "/", "/">>)
                \/ HasPrefix(cutLine, <<"https:", "/", "/">>)
               THEN (IF normalizeURLOf(cutLine).ok THEN <<normalizeURLOf(cutLine).url>>
                     ELSE <<>>)
        ELSE <<>>

RECURSIVE urlsOfLines(_)
urlsOfLines(lines) ==
    IF lines = <<>> THEN <<>> ELSE urlsOfLine(Head(lines)) \o urlsOfLines(Tail(lines))

\* what parseURLList(text) returns
parseURLListOf(text) == urlsOfLines(Split(text, "\n"))

\* a call parseURLList(urlsText)
parseURLList ==
    /\ arg.fn = "parseURLList"
    /\ result.fn = "none"
    /\ result' = [fn |-> "parseURLList", urls |-> parseURLListOf(explode(arg.text))]
    /\ UNCHANGED arg
    /\ UNCHANGED notParseVars

\* a call normalizeURL(raw)
normalizeURL ==
    /\ arg.fn = "normalizeURL"
    /\ result.fn = "none"
    /\ result' = [fn |-> "normalizeURL",
                  url |-> normalizeURLOf(explode(arg.raw)).url,
                  ok |-> normalizeURLOf(explode(arg.raw)).ok]
    /\ UNCHANGED arg
    /\ UNCHANGED notParseVars

(***************************************************************************)
(* extractDirective. A policy is a sequence of characters: ";", " " and    *)
(* the letters "a" and "b".                                                *)
(***************************************************************************)
PolicyChars == {";", " ", "a", "b"}

\* the policies of at most n characters
RECURSIVE Policies(_)
Policies(n) ==
    IF n = 0 THEN {<<>>}
    ELSE Policies(n - 1) \cup
         {Append(t, c) : t \in {x \in Policies(n - 1) : Len(x) = n - 1}, c \in PolicyChars}

\* the directive names asked for
Directives == {<<>>, <<"a">>, <<"a", "b">>}

\* mutant: a segment matches when it begins with the directive
directiveMatches_prefix(p, directive) == HasPrefix(p, directive)

\* line 1189
directiveMatches(p, directive) ==
    HasPrefix(p, directive \o <<" ">>) \/ p = directive

\* lines 1184-1193, over the parts still to look at
RECURSIVE firstMatch(_, _)
firstMatch(parts, directive) ==
    IF parts = <<>> THEN <<>>
    ELSE LET p == TrimSpace(Head(parts))
         IN  IF p = <<>> THEN firstMatch(Tail(parts), directive)
             ELSE IF directiveMatches(p, directive) THEN p
             ELSE firstMatch(Tail(parts), directive)

\* what extractDirective(policy, directive) returns
extractDirectiveOf(policy, directive) == firstMatch(Split(policy, ";"), directive)

\* a call extractDirective(policy, directive)
extractDirective ==
    /\ arg.fn = "extractDirective"
    /\ result.fn = "none"
    /\ result' = [fn |-> "extractDirective",
                  value |-> extractDirectiveOf(arg.policy, arg.directive)]
    /\ UNCHANGED arg
    /\ UNCHANGED notParseVars

\* a call to one of the parsers is about to be made
InitParse ==
    /\ InitOrch
    /\ QueueOff
    /\ StoreOff
    /\ DedupOff
    /\ GroupOff
    /\ MultiOff
    /\ \/ \E c \in StoredConfigs : arg = [fn |-> "parseConfig", raw |-> c]
       \/ \E t \in Texts(MaxTextLen) : arg = [fn |-> "parseURLList", text |-> t]
       \/ \E t \in Texts(MaxTextLen) : arg = [fn |-> "normalizeURL", raw |-> t]
       \/ \E q \in Policies(MaxPolicyLen), d \in Directives :
             arg = [fn |-> "extractDirective", policy |-> q, directive |-> d]
    /\ result = [fn |-> "none"]

NextParse ==
    \/ parseConfig
    \/ parseURLList
    \/ normalizeURL
    \/ extractDirective

SpecParse == InitParse /\ [][NextParse]_vars

(***************************************************************************)
(* Claims about the parsers (checked under SpecParse)                      *)
(***************************************************************************)
\* a stored number that is missing, zero or negative
Broken(member) == member = None \/ member[1] <= 0

\* C15: parseConfig repairs numeric options: a stored navTimeoutMs, and
\* likewise a stored concurrency, that is missing, zero or negative parses to
\* one and the same positive value in all three cases, never to a zero or
\* negative one.
C15_NumericRepair ==
    (result.fn = "parseConfig" /\ arg.raw.kind = "object") =>
        /\ result.cfg.NavTimeoutMs > 0
        /\ result.cfg.Concurrency > 0
        /\ Broken(arg.raw.navTimeoutMs) =>
              \A m \in {None, Some(0), Some(-1)} :
                  parseConfigOf([arg.raw EXCEPT !.navTimeoutMs = m]).cfg.NavTimeoutMs
                      = result.cfg.NavTimeoutMs
        /\ Broken(arg.raw.concurrency) =>
              \A m \in {None, Some(0), Some(-1)} :
                  parseConfigOf([arg.raw EXCEPT !.concurrency = m]).cfg.Concurrency
                      = result.cfg.Concurrency

\* the navigation criteria the probe's browser driver knows
RecognizedWaitUntil == {"load", "domcontentloaded", "networkidle", "commit"}

\* C16: after parseConfig has parsed a stored configuration, waitUntil is a
\* member of the recognized vocabulary: an empty or unrecognized stored value
\* has been replaced.
C16_WaitUntilRecognized ==
    (result.fn = "parseConfig" /\ result.err = "nil") =>
        result.cfg.WaitUntil \in RecognizedWaitUntil

\* the line as parseURLList looks at it: trimmed, cut at its first '#'
CutLine(line) ==
    LET t == TrimSpace(line)
    IN  IF IndexOf(t, "#") = 0 THEN t ELSE TrimSpace(SubSeq(t, 1, IndexOf(t, "#") - 1))

\* the line is neither blank nor a comment, starts with http:// or https://
\* and has a non-empty host
AcceptedLine(line) ==
    /\ TrimSpace(line) # <<>>
    /\ Head(TrimSpace(line)) # "#"
    /\ \/ HasPrefix(CutLine(line), <<"http:", "/", "/">>)
       \/ HasPrefix(CutLine(line), <<"https:", "/", "/">>)
    /\ ~urlParse(CutLine(line)).err
    /\ urlParse(CutLine(line)).Host # <<>>

\* the URL of an accepted line, its empty path replaced by "/"
NormalForm(line) ==
    LET u == urlParse(CutLine(line))
    IN  urlString([u EXCEPT !.Path = IF @ = <<>> THEN <<"/">> ELSE @])

RECURSIVE ExpectedURLs(_)
ExpectedURLs(lines) ==
    IF lines = <<>> THEN <<>>
    ELSE (IF AcceptedLine(Head(lines)) THEN <<NormalForm(Head(lines))>> ELSE <<>>)
         \o ExpectedURLs(Tail(lines))

Segments == [i \in DOMAIN Split(arg.policy, ";") |-> TrimSpace(Split(arg.policy, ";")[i])]

\* the directive name of a segment: what comes before its first space
NameOf(segment) ==
    IF IndexOf(segment, " ") = 0 THEN segment
    ELSE SubSeq(segment, 1, IndexOf(segment, " ") - 1)

\* the segment is not empty and its directive name is the requested one
Named(segment) == segment # <<>> /\ NameOf(segment) = arg.directive

\* C18: extractDirective returns the first ';'-separated segment, trimmed,
\* whose directive name is exactly the requested directive, and the empty
\* string when there is none; a segment whose name only begins with the
\* requested directive does not match.
C18_FirstSegmentOfDirective ==
    result.fn = "extractDirective" =>
        IF \E i \in DOMAIN Segments : Named(Segments[i])
          THEN \E i \in DOMAIN Segments :
                  /\ Named(Segments[i])
                  /\ \A j \in 1..(i - 1) : ~Named(Segments[j])
                  /\ result.value = Segments[i]
          ELSE result.value = <<>>

\* C18 witness: the policy "ab; a" asked for "a": the segment "ab" is passed
\* over, the segment "a" is returned without its leading space.
C18_Witness ==
    /\ result.fn = "extractDirective"
    /\ arg.policy = <<"a", "b", ";", " ", "a">>
    /\ arg.directive = <<"a">>
    /\ result.value = <<"a">>

\* C19: normalizeURL accepts an input if and only if it parses with a
\* non-empty scheme and a non-empty host; the URL it returns has the same
\* scheme and host, the path "/" where the input had none and the input's
\* path otherwise; normalizing the returned URL returns it unchanged.
C19_NormalizeURLIdempotent ==
    result.fn = "normalizeURL" =>
        LET u == urlParse(explode(arg.raw))
            v == urlParse(result.url)
        IN  /\ result.ok <=> (~u.err /\ u.Scheme # <<>> /\ u.Host # <<>>)
            /\ result.ok =>
                  /\ ~v.err
                  /\ v.Scheme = u.Scheme
                  /\ v.Host = u.Host
                  /\ v.Path = (IF u.Path = <<>> THEN <<"/">> ELSE u.Path)
                  /\ normalizeURLOf(result.url) = [url |-> result.url, ok |-> TRUE]

\* C19 witness: https://h has no path and is returned as https://h/; so is
\* https://h/ itself.
C19_Witness ==
    /\ result.fn = "normalizeURL"
    /\ arg.raw = <<"https://", "h">>
    /\ result.ok
    /\ result.url = <<"https:", "/", "/", "h", "/">>
    /\ normalizeURLOf(explode(<<"https://", "h", "/">>)).url = result.url

(***************************************************************************)
(* SpecStore: the tables profiles and runs, and the handlers on them.      *)
(* A handler is one step: requests are taken one at a time.  The columns   *)
(* created_at and elapsed_ms hold clock readings and are left out.         *)
(***************************************************************************)

defaultProfileName == "Default"

\* json.Marshal of a CSPConfig: every member is written
marshalConfig(cfg) ==
    [kind |-> "object",
     waitUntil |-> Some(cfg.WaitUntil),
     navTimeoutMs |-> Some(cfg.NavTimeoutMs),
     settleWaitMs |-> Some(cfg.SettleWaitMs),
     concurrency |-> Some(cfg.Concurrency),
     betweenUrlMs |-> Some(cfg.BetweenURLMs),
     userAgent |-> Some(cfg.UserAgent),
     acceptLanguage |-> Some(cfg.AcceptLanguage),
     browser |-> Some(cfg.Browser)]

\* the profile form: the name as typed, and the fields wait_until and
\* nav_timeout_ms as typed (blank, not a number, or a number), the other
\* fields left blank
FormNames == {"", defaultProfileName, "p"}

FormFields ==
    {[wait_until |-> "", nav_timeout_ms |-> [kind |-> "blank"]],
     [wait_until |-> "", nav_timeout_ms |-> [kind |-> "text"]],
     [wait_until |-> "load", nav_timeout_ms |-> [kind |-> "int", n |-> 0]]}

parseIntForm(raw) == IF raw.kind = "int" THEN raw.n ELSE 0 - 1

\* the configuration a profile form is stored as
formConfig(form) ==
    marshalConfig([defaultConfig EXCEPT
        !.WaitUntil = IF form.wait_until # "" THEN form.wait_until ELSE @,
        !.NavTimeoutMs = IF parseIntForm(form.nav_timeout_ms) > 0
                           THEN parseIntForm(form.nav_timeout_ms)
                           ELSE @])

\* an id field of a form: blank, not a number, or a number, which is the
\* id of a row of the table or the first id the table has not given out
FormIDs(rows) ==
    {[kind |-> "blank"], [kind |-> "text"]} \cup [kind : {"int"}, n : 1..(Len(rows) + 1)]

\* the urls field of the run form
FormURLs == {<<" ">>, <<"#", "h">>, <<" ", "https://", "h", "\n">>}

\* what runCSPCheck returns: an error, or the report of every engine and
\* the exit code
cleanReport == [b \in Engines |-> [pages |-> 1, violations |-> 0]]
dirtyReport ==
    [b \in Engines |->
        IF b = "chromium" THEN [pages |-> 1, violations |-> 1]
        ELSE IF b = "firefox" THEN [pages |-> 2, violations |-> 0]
        ELSE [pages |-> 1, violations |-> 2]]

CheckOutcomes ==
    {[err |-> TRUE, multi |-> cleanReport, exitCode |-> 0],
     [err |-> FALSE, multi |-> cleanReport, exitCode |-> 0],
     [err |-> FALSE, multi |-> dirtyReport, exitCode |-> 1]}

RECURSIVE sumViolations(_, _)
sumViolations(m, names) ==
    IF names = {} THEN 0
    ELSE LET b == CHOOSE x \in names : TRUE
         IN  m[b].violations + sumViolations(m, names \ {b})

summarizeMulti_pagesSummed(m) ==
    [Pages |-> SumOf([b \in DOMAIN m |-> m[b].pages]),
     Violations |-> sumViolations(m, DOMAIN m),
     Browsers |-> m]

summarizeMulti(m) ==
    [Pages |-> CHOOSE n \in {0} \cup {m[b].pages : b \in DOMAIN m} :
                  \A b \in DOMAIN m : m[b].pages <= n,
     Violations |-> sumViolations(m, DOMAIN m),
     Browsers |-> m]

profileIDs(rows) == {rows[i].id : i \in DOMAIN rows}

\* SELECT ... FROM profiles WHERE id = ?
getProfile(rows, id) ==
    IF id \in profileIDs(rows)
      THEN Some(CHOOSE r \in Range(rows) : r.id = id)
      ELSE None

\* SELECT ... FROM profiles WHERE name = ?
getProfileByName(rows, name) ==
    IF \E r \in Range(rows) : r.name = name
      THEN Some(CHOOSE r \in Range(rows) : r.name = name)
      ELSE None

\* SELECT ... FROM runs WHERE id = ?
getRun(rows, id) ==
    IF \E r \in Range(rows) : r.id = id
      THEN Some(CHOOSE r \in Range(rows) : r.id = id)
      ELSE None

\* INTEGER PRIMARY KEY AUTOINCREMENT on a table no row leaves
nextID(rows) == Len(rows) + 1

\* the INSERT of createRun is refused when profile_id names no profile
\* (foreign_keys is on) or when the statement itself fails
createRunRefused_noForeignKey(profiles, profileID, dbOk) == ~dbOk

createRunRefused(profiles, profileID, dbOk) ==
    \/ ~dbOk
    \/ profileID # None /\ profileID[1] \notin profileIDs(profiles)

createRun_upsert(rows, profileID, urlsText, multi, exitCode) ==
    LET row(i) == [id |-> i, profile_id |-> profileID, urls_text |-> urlsText,
                   summary_json |-> summarizeMulti(multi), results_json |-> multi,
                   exit_code |-> exitCode]
    IN  IF \E i \in DOMAIN rows : /\ rows[i].urls_text = urlsText
                                  /\ rows[i].profile_id = profileID
          THEN LET i == CHOOSE j \in DOMAIN rows : /\ rows[j].urls_text = urlsText
                                                  /\ rows[j].profile_id = profileID
               IN  [rows EXCEPT ![i] = row(rows[i].id)]
          ELSE Append(rows, row(nextID(rows)))

\* the table runs after the INSERT of createRun
createRun(rows, profileID, urlsText, multi, exitCode) ==
    Append(rows, [id |-> nextID(rows), profile_id |-> profileID,
                  urls_text |-> urlsText,
                  summary_json |-> summarizeMulti(multi), results_json |-> multi,
                  exit_code |-> exitCode])

\* LastInsertId
lastInsertID(rows) == rows[Len(rows)].id

Reply(handler, code, to) == [handler |-> handler, code |-> code, to |-> to]

\* the configuration of the profile id, the built-in one when the
\* profile is not found or its config_json does not parse
configOfProfile(rows, id) ==
    LET p == getProfile(rows, id)
        parsed == parseConfigOf(p[1].config_json)
    IN  IF p # None /\ parsed.err = "nil" THEN parsed.cfg ELSE defaultConfig

\* the profile and the configuration of a run no profile was chosen for
defaultChoice(rows) ==
    LET p == getProfileByName(rows, defaultProfileName)
        parsed == parseConfigOf(p[1].config_json)
    IN  IF p = None THEN [profileID |-> None, cfg |-> defaultConfig]
        ELSE [profileID |-> Some(p[1].id),
              cfg |-> IF parsed.err = "nil" THEN parsed.cfg ELSE defaultConfig]

\* a request that ends before runCSPCheck
Refuse(handler, code, message) ==
    /\ reply' = Reply(handler, code, <<message>>)
    /\ probed' = None
    /\ UNCHANGED runRows

\* the tail both run handlers share: the engines run (call is the call of
\* runCSPCheck), the run is saved
runAndSave(handler, profileID, call, urlsText, out) ==
    /\ probed' = call
    /\ IF out.err
         THEN /\ reply' = Reply(handler, 500, <<"csp check failed">>)
              /\ UNCHANGED runRows
         ELSE \E dbOk \in BOOLEAN :
                IF createRunRefused(profileRows, profileID, dbOk)
                  THEN /\ reply' = Reply(handler, 500, <<"save run failed">>)
                       /\ UNCHANGED runRows
                  ELSE /\ runRows' = createRun(runRows, profileID, urlsText,
                                               out.multi, out.exitCode)
                       /\ reply' = Reply(handler, 303,
                                         <<"/runs/", lastInsertID(runRows')>>)

\* POST /runs
handleRunsPOST ==
    /\ Len(runRows) < MaxRuns
    /\ \E form \in FormURLs :
         LET urlsText == TrimSpace(form)
             urls == IF urlsText = <<>> THEN <<>> ELSE parseURLListOf(explode(urlsText))
         IN  IF urlsText = <<>> THEN Refuse("handleRuns", 400, "urls required")
             ELSE IF urls = <<>> THEN Refuse("handleRuns", 400, "no valid urls")
             ELSE \E pid \in FormIDs(profileRows) :
                    LET choice ==
                            IF pid.kind = "int"
                              THEN [profileID |-> Some(pid.n),
                                    cfg |-> configOfProfile(profileRows, pid.n)]
                            ELSE IF pid.kind = "text"
                              THEN [profileID |-> None, cfg |-> defaultConfig]
                            ELSE defaultChoice(profileRows)
                        call == Some([urls |-> urls, cfg |-> choice.cfg])
                    IN  \E out \in CheckOutcomes :
                           runAndSave("handleRuns", choice.profileID, call,
                                      urlsText, out)
    /\ UNCHANGED profileRows
    /\ UNCHANGED notStoreVars

\* POST /runs/rerun
handleRunRerun ==
    /\ Len(runRows) < MaxRuns
    /\ \E id \in FormIDs(runRows) :
         IF id.kind = "blank" THEN Refuse("handleRunRerun", 400, "id required")
         ELSE IF id.kind = "text" THEN Refuse("handleRunRerun", 400, "invalid id")
         ELSE IF getRun(runRows, id.n) = None
           THEN Refuse("handleRunRerun", 404, "run not found")
         ELSE LET prev == getRun(runRows, id.n)[1]
                  urls == parseURLListOf(explode(prev.urls_text))
              IN  IF urls = <<>> THEN Refuse("handleRunRerun", 400, "no valid urls")
                  ELSE \E pid \in FormIDs(profileRows) :
                         LET profileID == IF pid.kind = "int" THEN Some(pid.n)
                                          ELSE prev.profile_id
                             choice ==
                                 IF profileID # None
                                   THEN [profileID |-> profileID,
                                         cfg |-> configOfProfile(profileRows,
                                                                 profileID[1])]
                                   ELSE defaultChoice(profileRows)
                             call == Some([urls |-> urls, cfg |-> choice.cfg])
                         IN  \E out \in CheckOutcomes :
                                runAndSave("handleRunRerun", choice.profileID, call,
                                           prev.urls_text, out)
    /\ UNCHANGED profileRows
    /\ UNCHANGED notStoreVars

\* the reply of a read handler that finds no run under the id it was
\* given, None when it finds one
runMissing(handler, id) ==
    IF id.kind = "blank" THEN Some(Reply(handler, 400, <<"id required">>))
    ELSE IF id.kind = "text" THEN Some(Reply(handler, 400, <<"invalid id">>))
    ELSE IF getRun(runRows, id.n) = None
      THEN Some(Reply(handler, 404, <<"run not found">>))
    ELSE None

\* GET /runs/export: the stored results_json is written out
handleRunExport ==
    /\ \E id \in FormIDs(runRows) :
         LET missing == runMissing("handleRunExport", id)
         IN  reply' = IF missing # None THEN missing[1]
                      ELSE LET run == getRun(runRows, id.n)[1]
                           IN  Reply("handleRunExport", 200,
                                     <<"csp-run-", run.id, run.exit_code>>)
    /\ probed' = None
    /\ UNCHANGED <<profileRows, runRows>>
    /\ UNCHANGED notStoreVars

\* POST /runs/copy: a redirect to the start page with the run's URLs
handleRunCopy ==
    /\ \E id \in FormIDs(runRows) :
         LET missing == runMissing("handleRunCopy", id)
         IN  reply' = IF missing # None THEN missing[1]
                      ELSE LET run == getRun(runRows, id.n)[1]
                           IN  Reply("handleRunCopy", 303,
                                     <<"/?urls=">> \o run.urls_text)
    /\ probed' = None
    /\ UNCHANGED <<profileRows, runRows>>
    /\ UNCHANGED notStoreVars

\* the INSERT of createProfile and the UPDATE of updateProfile are refused
\* when another row has the name (name is UNIQUE)
nameTaken_never(rows, name, id) == FALSE

nameTaken(rows, name, id) == \E r \in Range(rows) : r.name = name /\ r.id # id

\* time.Now() at an INSERT into profiles: rows are stamped in the order
\* they are inserted, and the stamp is the rank of the insertion
now(rows) == Len(rows) + 1

createProfile(rows, name, configJSON) ==
    Append(rows, [id |-> nextID(rows), name |-> name, config_json |-> configJSON,
                  created_at |-> now(rows)])

updateProfile_restamp(rows, id, name, configJSON) ==
    [i \in DOMAIN rows |->
        IF rows[i].id = id
          THEN [rows[i] EXCEPT !.name = name, !.config_json = configJSON,
                               !.created_at = now(rows)]
          ELSE rows[i]]

updateProfile(rows, id, name, configJSON) ==
    [i \in DOMAIN rows |->
        IF rows[i].id = id
          THEN [rows[i] EXCEPT !.name = name, !.config_json = configJSON]
          ELSE rows[i]]

\* POST /profiles: the table and the response it leaves; dbOk is whether
\* the statement, when it is reached, is carried out
handleProfilesOf(rows, name, form, dbOk) ==
    IF name = ""
      THEN [rows |-> rows, reply |-> Reply("handleProfiles", 400, <<"name required">>)]
    ELSE IF ~dbOk \/ nameTaken(rows, name, 0)
      THEN [rows |-> rows, reply |-> Reply("handleProfiles", 400, <<"create failed">>)]
    ELSE [rows |-> createProfile(rows, name, formConfig(form)),
          reply |-> Reply("handleProfiles", 303, <<"/profiles">>)]

handleProfilesPOST ==
    /\ Len(profileRows) < MaxProfiles
    /\ \E name \in FormNames, form \in FormFields :
         \E dbOk \in IF name = "" THEN {TRUE} ELSE BOOLEAN :
            LET done == handleProfilesOf(profileRows, name, form, dbOk)
            IN  /\ profileRows' = done.rows
                /\ reply' = done.reply
    /\ probed' = None
    /\ UNCHANGED runRows
    /\ UNCHANGED notStoreVars

\* POST /profiles/update: the table and the response it leaves
handleProfileUpdateOf(rows, id, name, form, dbOk) ==
    IF id.kind = "blank"
      THEN [rows |-> rows,
            reply |-> Reply("handleProfileUpdate", 400, <<"id required">>)]
    ELSE IF id.kind = "text"
      THEN [rows |-> rows,
            reply |-> Reply("handleProfileUpdate", 400, <<"invalid id">>)]
    ELSE IF name = ""
      THEN [rows |-> rows,
            reply |-> Reply("handleProfileUpdate", 400, <<"name required">>)]
    ELSE IF ~dbOk \/ (id.n \in profileIDs(rows) /\ nameTaken(rows, name, id.n))
      THEN [rows |-> rows,
            reply |-> Reply("handleProfileUpdate", 400, <<"update failed">>)]
    ELSE [rows |-> updateProfile(rows, id.n, name, formConfig(form)),
          reply |-> Reply("handleProfileUpdate", 303, <<"/profiles">>)]

handleProfileUpdate ==
    /\ \E id \in FormIDs(profileRows), name \in FormNames, form \in FormFields :
         \E dbOk \in IF id.kind # "int" \/ name = "" THEN {TRUE} ELSE BOOLEAN :
            LET done == handleProfileUpdateOf(profileRows, id, name, form, dbOk)
            IN  /\ profileRows' = done.rows
                /\ reply' = done.reply
    /\ probed' = None
    /\ UNCHANGED runRows
    /\ UNCHANGED notStoreVars

\* the tables after initDB and ensureDefaultProfile on a new database file
InitStore ==
    /\ InitOrch
    /\ QueueOff
    /\ DedupOff
    /\ GroupOff
    /\ MultiOff
    /\ ParseOff
    /\ profileRows = createProfile(<<>>, defaultProfileName, marshalConfig(defaultConfig))
    /\ runRows = <<>>
    /\ reply = Reply("main", 0, <<>>)
    /\ probed = None
    /\ boot = <<>>

NextStore ==
    \/ handleRunsPOST
    \/ handleRunRerun
    \/ handleRunExport
    \/ handleRunCopy
    \/ handleProfilesPOST
    \/ handleProfileUpdate

SpecStore == InitStore /\ [][NextStore]_vars

\* what a step leaves of the table runs
runsKept == \A r \in Range(runRows) : r \in Range(runRows')
runsAdded == {r \in Range(runRows') : r \notin Range(runRows)}
saved == reply'.handler \in {"handleRuns", "handleRunRerun"} /\ reply'.code = 303

\* C20: Runs are append-only and immutable.  Every step of the handlers (a
\* run submission, a re-run, a run copy, an export, a profile creation or
\* update) leaves every row of runs in place with every column unchanged; a
\* submission or re-run that succeeds adds exactly one row, whose id no
\* earlier row has, and redirects to it; every other step adds none.
C20_RunsAppendOnly ==
    [][ /\ runsKept
        /\ saved =>
             /\ Cardinality(runsAdded) = 1
             /\ Len(runRows') = Len(runRows) + 1
             /\ \A n \in runsAdded :
                  /\ \A r \in Range(runRows) : r.id # n.id
                  /\ reply'.to = <<"/runs/", n.id>>
        /\ ~saved => runRows' = runRows ]_vars

\* C20 witness: run 1 was re-run with the same URLs and the same profile,
\* after that profile was renamed; the table holds both, under ids 1 and 2,
\* and run 1 still has the result it was saved with.
C20_Witness ==
    /\ reply = Reply("handleRunRerun", 303, <<"/runs/", 2>>)
    /\ Len(runRows) = 2
    /\ runRows[1].id = 1
    /\ runRows[2].id = 2
    /\ runRows[1].urls_text = runRows[2].urls_text
    /\ runRows[1].profile_id = Some(1)
    /\ runRows[2].profile_id = Some(1)
    /\ runRows[1].exit_code = 0
    /\ runRows[2].exit_code = 1
    /\ profileRows[1].name = "p"

\* the step was a re-run, or a submission, that saved its run
rerunSaved == reply'.handler = "handleRunRerun" /\ reply'.code = 303
submitSaved == reply'.handler = "handleRuns" /\ reply'.code = 303

\* the configuration of a stored profile
ConfigOf(p) == parseConfigOf(p.config_json).cfg

\* the profile a re-run of orig uses when sup is the profile id supplied
\* with it (None: none supplied): the supplied one, else the original
\* run's, else the Default profile; None when there is no such profile
ProfileToUse(sup, orig) ==
    IF sup # None THEN getProfile(profileRows, sup[1])
    ELSE IF orig.profile_id # None THEN getProfile(profileRows, orig.profile_id[1])
    ELSE getProfileByName(profileRows, defaultProfileName)

\* C21: a re-run that saves its run probed the URL list of an original run
\* and recorded that run's URL text unchanged, with the configuration of
\* the profile supplied at re-run time, else of the original run's
\* profile, else of the current Default profile; the new run has a new id
\* and references the profile whose configuration was used, and the
\* original run is still in the table as it was.
C21_RerunUsesOriginal ==
    [][ rerunSaved =>
          \E orig \in Range(runRows),
             sup \in {None} \cup {Some(i) : i \in profileIDs(profileRows)} :
             LET n == runRows'[Len(runRows')]
                 p == ProfileToUse(sup, orig)
             IN  /\ p # None
                 /\ probed' = Some([urls |-> parseURLListOf(explode(orig.urls_text)),
                                    cfg |-> ConfigOf(p[1])])
                 /\ n.urls_text = orig.urls_text
                 /\ n.profile_id = Some(p[1].id)
                 /\ n.id \notin {r.id : r \in Range(runRows)}
                 /\ orig \in Range(runRows')
                 /\ Len(runRows') = Len(runRows) + 1 ]_vars

\* C22: a profile named "Default" exists in every state, and a run
\* submitted without a profile (the last request was a submission that
\* saved a run with the profile the Default name selects) used that
\* profile's configuration and recorded its id.
C22_DefaultAlwaysExists ==
    /\ getProfileByName(profileRows, defaultProfileName) # None
    /\ (reply.handler = "handleRuns" /\ reply.code = 303) =>
         LET n == runRows[Len(runRows)]
         IN  /\ n.profile_id # None
             /\ getProfile(profileRows, n.profile_id[1]) # None
             /\ probed[1].cfg = ConfigOf(getProfile(profileRows, n.profile_id[1])[1])

\* C23: every run's profile reference is null or the id of a profile in
\* the table; no submission and no re-run, whatever profile id it names,
\* leaves a run that references a profile the table does not hold.
C23_NoDanglingProfile ==
    \A r \in Range(runRows) :
        r.profile_id = None \/ r.profile_id[1] \in profileIDs(profileRows)

\* C23 witness: a run that references the second profile is stored, and
\* the last request, a re-run of it, was probed and then refused at the
\* INSERT.
C23_Witness ==
    /\ Len(runRows) = 1
    /\ runRows[1].profile_id = Some(2)
    /\ Len(profileRows) = 2
    /\ reply = Reply("handleRunRerun", 500, <<"save run failed">>)
    /\ probed # None

\* the response is an error
isError(r) == r.code >= 400

\* C25: input errors are rejected before any probe and leave the store
\* unchanged.  A submission refused for its URL text (empty, or without a
\* valid URL) made no call of runCSPCheck and changed no profile and no
\* run; a profile form whose numeric field nav_timeout_ms is not a number
\* gets an error response and leaves the table profiles as it was, on
\* creation and on update.
C25_InputErrorsRejected ==
    /\ [][ (reply'.handler = "handleRuns" /\ reply'.code = 400) =>
              /\ probed' = None
              /\ profileRows' = profileRows
              /\ runRows' = runRows ]_vars
    /\ [](\A name \in FormNames \ {""}, form \in FormFields, id \in FormIDs(profileRows) :
            form.nav_timeout_ms.kind = "text" =>
               LET created == handleProfilesOf(profileRows, name, form, TRUE)
                   updated == handleProfileUpdateOf(profileRows, id, name, form, TRUE)
               IN  /\ isError(created.reply) /\ created.rows = profileRows
                   /\ isError(updated.reply) /\ updated.rows = profileRows)

\* C29: a successful profile update keeps the number of profiles, every
\* profile's id and creation time and every run; it changes at most one
\* profile, and of that one only the name and the configuration.  No
\* step removes a profile.
C29_UpdateInPlace ==
    [][ /\ \A p \in Range(profileRows) : \E q \in Range(profileRows') : q.id = p.id
        /\ (reply'.handler = "handleProfileUpdate" /\ reply'.code = 303) =>
             /\ Len(profileRows') = Len(profileRows)
             /\ runRows' = runRows
             /\ \A i \in DOMAIN profileRows :
                  /\ profileRows'[i].id = profileRows[i].id
                  /\ profileRows'[i].created_at = profileRows[i].created_at
             /\ Cardinality({i \in DOMAIN profileRows :
                                profileRows'[i] # profileRows[i]}) <= 1 ]_vars

\* C29 witness: the first profile, created as Default, was renamed and a
\* second profile was then updated to wait for "load"; both keep their ids
\* and creation times and the stored run is still there.
C29_Witness ==
    /\ reply = Reply("handleProfileUpdate", 303, <<"/profiles">>)
    /\ Len(profileRows) = 2
    /\ profileRows[1].name = "p"
    /\ profileRows[1].id = 1
    /\ profileRows[1].created_at = 1
    /\ profileRows[2].name = defaultProfileName
    /\ profileRows[2].created_at = 2
    /\ ConfigOf(profileRows[2]).WaitUntil = "load"
    /\ ConfigOf(profileRows[1]).WaitUntil = "networkidle"
    /\ Len(runRows) = 1

\* C24: for every stored run the summary is what re-aggregating the stored
\* result gives: the summary's per-engine totals are the engines' totals,
\* its violations total is the sum of the engines' violations totals, and
\* its pages total is the largest of the engines' pages totals.
C24_SummaryDerivable ==
    \A r \in Range(runRows) :
        LET m == r.results_json
            s == r.summary_json
        IN  /\ DOMAIN s.Browsers = DOMAIN m
            /\ \A b \in DOMAIN m : s.Browsers[b] = m[b]
            /\ s.Violations = SumOf([b \in DOMAIN m |-> m[b].violations])
            /\ \A b \in DOMAIN m : m[b].pages <= s.Pages
            /\ \E b \in DOMAIN m : m[b].pages = s.Pages

\* C24 witness: a stored run whose engines disagree: 1, 0 and 2 violations
\* on 1, 2 and 1 pages, summarised as 3 violations on 2 pages.
C24_Witness ==
    \E r \in Range(runRows) :
        /\ r.results_json["chromium"] = [pages |-> 1, violations |-> 1]
        /\ r.results_json["firefox"] = [pages |-> 2, violations |-> 0]
        /\ r.results_json["webkit"] = [pages |-> 1, violations |-> 2]
        /\ r.summary_json.Violations = 3
        /\ r.summary_json.Pages = 2


(***************************************************************************)
(* SpecBoot: instances of the server start on one database file.  Each     *)
(* runs ensureDefaultProfile, one SQL statement per step, and serves the   *)
(* profile handlers once it is through.                                    *)
(***************************************************************************)

legacyProfileName == "Default (Chromium)"

Instances == 1..MaxInstances

\* the table profiles of the database file the instances open: empty, or
\* rows of earlier runs of the server under distinct names
StartNames == {defaultProfileName, legacyProfileName, "p"}

StartTables ==
    {<<>>}
    \cup {createProfile(<<>>, n, formConfig(f)) : n \in StartNames, f \in FormFields}
    \cup UNION {{createProfile(createProfile(<<>>, n, formConfig(f)), m,
                                marshalConfig(defaultConfig)) :
                     m \in StartNames \ {n}, f \in FormFields} : n \in StartNames}

renameProfile_insert(rows, id, name) ==
    createProfile(rows, name, marshalConfig(defaultConfig))

\* UPDATE profiles SET name = ? WHERE id = ?
renameProfile(rows, id, name) ==
    [i \in DOMAIN rows |->
        IF rows[i].id = id THEN [rows[i] EXCEPT !.name = name] ELSE rows[i]]

\* ensureDefaultProfile run alone, every statement carried out: the table
\* it leaves
ensureDefaultProfileOf(rows) ==
    LET legacy == getProfileByName(rows, legacyProfileName)
    IN  IF getProfileByName(rows, defaultProfileName) # None THEN rows
        ELSE IF legacy # None
          THEN renameProfile(rows, legacy[1].id, defaultProfileName)
        ELSE createProfile(rows, defaultProfileName, marshalConfig(defaultConfig))

At(i, stmt) == boot[i].at = stmt

Goto(i, stmt, legacyID) ==
    boot' = [boot EXCEPT ![i] = [at |-> stmt, legacyID |-> legacyID]]

\* SELECT id FROM profiles WHERE name = 'Default': found, the function
\* returns; an error other than no rows is returned to main
selectDefault(i) ==
    /\ At(i, "selectDefault")
    /\ \E dbOk \in BOOLEAN :
         IF ~dbOk THEN Goto(i, "failed", 0)
         ELSE IF getProfileByName(profileRows, defaultProfileName) # None
           THEN Goto(i, "done", 0)
         ELSE Goto(i, "selectLegacy", 0)
    /\ UNCHANGED storeVars
    /\ UNCHANGED notBootVars

\* SELECT id FROM profiles WHERE name = 'Default (Chromium)': on any error
\* the function goes on to the INSERT
selectLegacy(i) ==
    /\ At(i, "selectLegacy")
    /\ \E dbOk \in BOOLEAN :
         LET legacy == getProfileByName(profileRows, legacyProfileName)
         IN  IF dbOk /\ legacy # None
               THEN Goto(i, "updateLegacy", legacy[1].id)
               ELSE Goto(i, "insertDefault", 0)
    /\ UNCHANGED storeVars
    /\ UNCHANGED notBootVars

\* UPDATE profiles SET name = 'Default' WHERE id = legacyID
updateLegacy(i) ==
    /\ At(i, "updateLegacy")
    /\ \E dbOk \in BOOLEAN :
         IF ~dbOk \/ ( /\ boot[i].legacyID \in profileIDs(profileRows)
                       /\ nameTaken(profileRows, defaultProfileName, boot[i].legacyID) )
           THEN /\ Goto(i, "failed", 0)
                /\ UNCHANGED profileRows
           ELSE /\ profileRows' = renameProfile(profileRows, boot[i].legacyID,
                                                defaultProfileName)
                /\ Goto(i, "done", boot[i].legacyID)
    /\ UNCHANGED <<runRows, reply, probed>>
    /\ UNCHANGED notBootVars

\* INSERT INTO profiles (name, config_json, created_at)
insertDefault(i) ==
    /\ At(i, "insertDefault")
    /\ \E dbOk \in BOOLEAN :
         IF ~dbOk \/ nameTaken(profileRows, defaultProfileName, 0)
           THEN /\ Goto(i, "failed", 0)
                /\ UNCHANGED profileRows
           ELSE /\ profileRows' = createProfile(profileRows, defaultProfileName,
                                                marshalConfig(defaultConfig))
                /\ Goto(i, "done", 0)
    /\ UNCHANGED <<runRows, reply, probed>>
    /\ UNCHANGED notBootVars

\* an instance that is through ensureDefaultProfile serves the profile
\* handlers
serveProfiles ==
    /\ \E i \in Instances : At(i, "done")
    /\ \/ handleProfilesPOST
       \/ handleProfileUpdate

InitBoot ==
    /\ InitOrch
    /\ QueueOff
    /\ DedupOff
    /\ GroupOff
    /\ MultiOff
    /\ ParseOff
    /\ profileRows \in StartTables
    /\ runRows = <<>>
    /\ reply = Reply("main", 0, <<>>)
    /\ probed = None
    /\ boot = [i \in Instances |-> [at |-> "selectDefault", legacyID |-> 0]]

NextBoot ==
    \/ \E i \in Instances : selectDefault(i)
    \/ \E i \in Instances : selectLegacy(i)
    \/ \E i \in Instances : updateLegacy(i)
    \/ \E i \in Instances : insertDefault(i)
    \/ serveProfiles

SpecBoot == InitBoot /\ [][NextBoot]_vars

\* no two rows of the table have one name
namesUnique(rows) ==
    \A i, j \in DOMAIN rows : rows[i].name = rows[j].name => i = j

\* C26: profile names are unique in every reachable state, whatever the
\* interleaving of the statements of ensureDefaultProfile in the instances
\* and of profile creations and renames: no two profiles share a name, at
\* most one is named "Default", and a creation or a rename under a name
\* another profile has is answered with an error and leaves the table as
\* it is.
C26_ProfileNamesUnique ==
    /\ namesUnique(profileRows)
    /\ Cardinality({i \in DOMAIN profileRows :
                       profileRows[i].name = defaultProfileName}) <= 1
    /\ \A r \in Range(profileRows), form \in FormFields :
         LET created == handleProfilesOf(profileRows, r.name, form, TRUE)
         IN  /\ isError(created.reply)
             /\ created.rows = profileRows
    /\ \A r, q \in Range(profileRows), form \in FormFields :
         r.id # q.id =>
            LET updated == handleProfileUpdateOf(profileRows,
                               [kind |-> "int", n |-> q.id], r.name, form, TRUE)
            IN  /\ isError(updated.reply)
                /\ updated.rows = profileRows

\* C26 witness: both instances went for the INSERT on a table without a
\* Default profile; one inserted it and the other was refused.
C26_Witness ==
    /\ At(1, "done")
    /\ At(2, "failed")
    /\ Len(profileRows) = 2
    /\ profileRows[1].name = "p"
    /\ profileRows[2].name = defaultProfileName

\* C28: ensureDefaultProfile run alone leaves a table with a Default
\* profile unchanged; else, where a profile has the legacy name, it renames
\* that profile and keeps its id, configuration and creation time, and adds
\* no row; else it adds one row named "Default" with the default
\* configuration; run again on the table it leaves, it changes nothing.
C28_EnsureDefaultIdempotent ==
    LET after == ensureDefaultProfileOf(profileRows)
        hasDefault == \E r \in Range(profileRows) : r.name = defaultProfileName
        hasLegacy == \E r \in Range(profileRows) : r.name = legacyProfileName
    IN  /\ hasDefault => after = profileRows
        /\ (~hasDefault /\ hasLegacy) =>
              /\ Len(after) = Len(profileRows)
              /\ \A i \in DOMAIN profileRows :
                   IF profileRows[i].name = legacyProfileName
                     THEN after[i] = [profileRows[i] EXCEPT !.name = defaultProfileName]
                     ELSE after[i] = profileRows[i]
        /\ (~hasDefault /\ ~hasLegacy) =>
              /\ Len(after) = Len(profileRows) + 1
              /\ SubSeq(after, 1, Len(profileRows)) = profileRows
              /\ after[Len(after)].name = defaultProfileName
              /\ after[Len(after)].config_json = marshalConfig(defaultConfig)
        /\ ensureDefaultProfileOf(after) = after
        /\ Cardinality({i \in DOMAIN after : after[i].name = defaultProfileName}) = 1

\* C28 witness: the legacy profile, stored first with its own
\* configuration, was renamed by the one instance that has run; it keeps
\* id 1, and the table still has its two rows.
C28_Witness ==
    /\ boot[1] = [at |-> "done", legacyID |-> 1]
    /\ At(2, "selectDefault")
    /\ Len(profileRows) = 2
    /\ profileRows[1].id = 1
    /\ profileRows[1].name = defaultProfileName
    /\ profileRows[1].created_at = 1
    /\ ConfigOf(profileRows[1]).WaitUntil = "load"
    /\ profileRows[2].name = "p"
    /\ reply = Reply("main", 0, <<>>)

(***************************************************************************)
(* SpecQueue: runQueue of csp-check.mjs.  JavaScript runs one piece of     *)
(* code at a time; a worker gives way only at its await, so one step here  *)
(* is the code of a worker from one await to the next.  Indices count from *)
(* 1 here and from 0 in the code.                                          *)
(***************************************************************************)
QueueURLs == {"a", "b"}

\* the lists readUrlList can hand to runQueue, the empty one included
Targets == UNION {[1..n -> QueueURLs] : n \in 0..MaxItems}

\* CONCURRENCY as main.go sets it: an integer, at least 1
Concurrencies == 1..MaxWorkers

\* what fn resolves to: the PageResult of checkUrl, whose catch turns a
\* failed navigation into ok = false
PageResult(u, ok) == [url |-> u, ok |-> ok]

Holes(n) == [k \in 1..n |-> None]

\* results.push(r): what a queue that ignored the index would do
storeResult_push(arr, i, r) == Append(arr, Some(r))

\* results[i] = r on a JavaScript array: the array grows to hold index i
storeResult(arr, i, r) ==
    IF i <= Len(arr)
    THEN [arr EXCEPT ![i] = Some(r)]
    ELSE arr \o Holes(i - 1 - Len(arr)) \o <<Some(r)>>

Worker(at, i) == [at |-> at, i |-> i]

\* const i = idx++; if (i >= items.length) return; ... fn(items[i], i)
takeNext(w) ==
    LET i == idx IN
    /\ idx' = idx + 1
    /\ IF i > Len(items)
       THEN /\ worker' = [worker EXCEPT ![w] = Worker("returned", 0)]
            /\ fnCalls' = fnCalls
       ELSE /\ worker' = [worker EXCEPT ![w] = Worker("await", i)]
            /\ fnCalls' = Append(fnCalls, i)

allStarted == \A w \in 1..workers : worker[w].at # "new"

\* Array.from({ length: workers }, worker): the workers are called one
\* after the other, each running up to its first await
workerStarts(w) ==
    /\ w \in 1..workers
    /\ queue.state = "pending"
    /\ worker[w].at = "new"
    /\ \A v \in 1..(w - 1) : worker[v].at # "new"
    /\ takeNext(w)
    /\ UNCHANGED <<items, workers, queueResults, queue, fnSettled>>
    /\ UNCHANGED notQueueVars

\* fn resolves: results[i] = <the value>, and the loop goes round
workerResumes(w) ==
    /\ w \in 1..workers
    /\ queue.state = "pending"
    /\ allStarted
    /\ worker[w].at = "await"
    /\ \E ok \in BOOLEAN :
         queueResults' = storeResult(queueResults, worker[w].i,
                                     PageResult(items[worker[w].i], ok))
    /\ fnSettled' = Append(fnSettled, worker[w].i)
    /\ takeNext(w)
    /\ UNCHANGED <<items, workers, queue>>
    /\ UNCHANGED notQueueVars

\* fn rejects (createContext or ctx.close throws outside checkUrl's try):
\* the worker's promise rejects, Promise.all rejects with it, the await at
\* the top level throws and the process ends
fnRejects(w) ==
    /\ w \in 1..workers
    /\ queue.state = "pending"
    /\ allStarted
    /\ worker[w].at = "await"
    /\ worker' = [worker EXCEPT ![w] = Worker("thrown", worker[w].i)]
    /\ queue' = [state |-> "rejected"]
    /\ UNCHANGED <<items, workers, idx, queueResults, fnCalls, fnSettled>>
    /\ UNCHANGED notQueueVars

\* await Promise.all(...); return results
runQueueReturns ==
    /\ queue.state = "pending"
    /\ \A w \in 1..workers : worker[w].at = "returned"
    /\ queue' = [state |-> "fulfilled", value |-> queueResults]
    /\ UNCHANGED <<items, workers, idx, queueResults, worker, fnCalls, fnSettled>>
    /\ UNCHANGED notQueueVars

InitQueue ==
    /\ InitOrch /\ DedupOff /\ GroupOff /\ MultiOff /\ ParseOff /\ StoreOff
    /\ items \in Targets
    /\ workers \in Concurrencies
    /\ idx = 1
    /\ queueResults = <<>>
    /\ worker = [w \in 1..workers |-> Worker("new", 0)]
    /\ queue = [state |-> "pending"]
    /\ fnCalls = <<>>
    /\ fnSettled = <<>>

NextQueue ==
    \/ \E w \in 1..MaxWorkers : workerStarts(w)
    \/ \E w \in 1..MaxWorkers : workerResumes(w)
    \/ \E w \in 1..MaxWorkers : fnRejects(w)
    \/ runQueueReturns

SpecQueue == InitQueue /\ [][NextQueue]_vars

\* every probe settles (the navigation has a timeout) and the event loop
\* runs whatever is ready
SpecQueueLive == SpecQueue /\ WF_vars(NextQueue)

(***************************************************************************)
(* Claims on SpecQueueLive                                                 *)
(***************************************************************************)
timesCalled(i) == Cardinality({k \in 1..Len(fnCalls) : fnCalls[k] = i})

\* page probes begun and not yet settled
inFlight ==
    Len(fnCalls) - Len(fnSettled)
      - Cardinality({w \in 1..workers : worker[w].at = "thrown"})

inOrder(arr) ==
    /\ Len(arr) = Len(items)
    /\ \A i \in 1..Len(items) : arr[i] # None /\ arr[i][1].url = items[i]

queueSafe ==
    /\ inFlight <= workers
    /\ \A i \in 1..Len(fnCalls) : fnCalls[i] \in 1..Len(items)
    /\ \A i \in 1..Len(items) : timesCalled(i) <= 1
    /\ queue.state = "fulfilled" =>
         /\ \A i \in 1..Len(items) : timesCalled(i) = 1
         /\ Len(fnSettled) = Len(items)
         /\ inFlight = 0
         /\ inOrder(queue.value)

====
